---- MODULE Spec2Model ----
(***************************************************************************)
(* Amber Foods backend: the document store (menu items, carts, orders,    *)
(* addresses, reviews, payments, notifications) and the route handlers    *)
(* that read and write it.  Every handler is one action; the handlers     *)
(* whose separate store writes matter are also given step by step.        *)
(*                                                                         *)
(* Optional values (a Python None, or a key missing from a document) are  *)
(* written None == <<>> and a present value v is written Some(v) == <<v>>.*)
(* Money on carts is in whole currency units; the charges of an order     *)
(* (delivery_fee, tax, total_amount) are kept multiplied by Scale.        *)
(***************************************************************************)
EXTENDS Integers, Sequences, FiniteSets, TLC

VARIABLES menu, categories, carts, addresses, orders, deliveries, reviews,
          payments, notifications, inflight, resp

vars == <<menu, categories, carts, addresses, orders, deliveries, reviews,
          payments, notifications, inflight, resp>>

----------------------------------------------------------------------------
(* Bounds of the model *)

Users == {"u1", "u2"}
Admins == {"u2"}
Shoppers == {"u1"}
Workers == {"w1", "w2"}
MenuIds == {"m1", "m2"}
Prices == {5, 10}
Quantities == {1, 2}
(* "quantity: int" of CartItemCreate and CartItemUpdate: any integer is
   accepted *)
RequestQuantities == {-1, 0, 1, 2}
MaxOrders == 1
MaxRacingOrders == 2
MaxAddresses == 3
MaxReviews == 2
MaxCategories == 2
MaxPayments == 2
MaxNotifications == 3
Ratings == {1, 4}

(* Program constants *)
DeliveryFeeScaled == 5000
TaxRateScaled == 75
Scale == 1000

None == <<>>
Some(v) == <<v>>
Val(o) == o[1]

Min(S) == CHOOSE x \in S : \A y \in S : x <= y

(* the response to the last request: its handler, its HTTP status and, for
   the payment handlers, the arguments the request carried *)
RespArg(op, code, arg) == [op |-> op, code |-> code, arg |-> arg]
Resp(op, code) == RespArg(op, code, <<>>)

----------------------------------------------------------------------------
(* Catalog: menu items *)

(* Categories.  categories is the menu_categories collection in insertion
   order, a category's _id is its position; a deleted one leaves NoCategory
   at its position. *)
NoCategory == [live |-> FALSE, name |-> ""]

CategoryNames == {"mains", "drinks"}

(* categories_collection.find_one({"_id": c}) *)
FindCategory(cats, c) == c \in 1..Len(cats) /\ cats[c].live

(* A slot of the menu_items collection: doc is "none" before the id has been
   issued, "live" while the document is stored, "gone" after its deletion
   (ObjectIds are never issued twice).  category_ids is what create and
   update store; category_id is the key of the earlier format, which no
   handler writes. *)
NoItem == [doc |-> "none", price |-> None, is_available |-> None,
           avg_rating |-> None, review_count |-> None,
           category_ids |-> {}, category_id |-> None]

Exists(mi) == mi.doc = "live"

(* menu_item.get("is_available", True) *)
IsAvailable(mi) == mi.is_available # Some(FALSE)

(* "Validate all categories exist": the ids asked for that name a stored
   category *)
ValidCategoryIds(cats, category_ids) == {c \in category_ids : FindCategory(cats, c)}

(* create_menu_item: the new document gets a fresh id m (one never issued
   before); keys whose value is None are dropped; avg_rating and
   review_count are not written. *)
CreateMenuItem(m, price, avail, category_ids) ==
    /\ menu[m].doc = "none"
    /\ menu' = [menu EXCEPT ![m] =
                   [doc |-> "live", price |-> price, is_available |-> avail,
                    avg_rating |-> None, review_count |-> None,
                    category_ids |-> ValidCategoryIds(categories, category_ids),
                    category_id |-> None]]
    /\ resp' = Resp("create_menu_item", 201)
    /\ UNCHANGED <<categories, deliveries, carts, addresses, orders, reviews, payments, notifications, inflight>>

(* update_menu_item: $set of the supplied fields, then 404 if no document *)
UpdateMenuItem(m, price, avail, category_ids) ==
    /\ IF Exists(menu[m])
       THEN /\ menu' = [menu EXCEPT
                          ![m].price = IF price # None THEN price ELSE @,
                          ![m].is_available = IF avail # None THEN avail ELSE @,
                          ![m].category_ids =
                              IF category_ids # None
                              THEN ValidCategoryIds(categories, Val(category_ids))
                              ELSE @]
            /\ resp' = Resp("update_menu_item", 200)
       ELSE /\ menu' = menu
            /\ resp' = Resp("update_menu_item", 404)
    /\ UNCHANGED <<categories, deliveries, carts, addresses, orders, reviews, payments, notifications, inflight>>

(* create_category (admin) *)
CreateCategory(name) ==
    /\ UNCHANGED <<menu, deliveries, carts, addresses, orders, reviews, payments, notifications, inflight>>
    /\ IF \E c \in 1..Len(categories) : categories[c].live /\ categories[c].name = name
       THEN categories' = categories /\ resp' = Resp("create_category", 400)
       ELSE /\ Len(categories) < MaxCategories
            /\ categories' = Append(categories, [live |-> TRUE, name |-> name])
            /\ resp' = Resp("create_category", 201)

(* items_collection.find_one({"category_id": c}) *)
ItemInCategory(mn, c) == \E m \in MenuIds : Exists(mn[m]) /\ mn[m].category_id = Some(c)

(* delete_category (admin) *)
DeleteCategory(c) ==
    /\ UNCHANGED <<menu, deliveries, carts, addresses, orders, reviews, payments, notifications, inflight>>
    /\ IF ~FindCategory(categories, c)
       THEN categories' = categories /\ resp' = Resp("delete_category", 404)
       ELSE IF ItemInCategory(menu, c)
       THEN categories' = categories /\ resp' = Resp("delete_category", 400)
       ELSE /\ categories' = [categories EXCEPT ![c] = NoCategory]
            /\ resp' = Resp("delete_category", 200)

(* delete_menu_item *)
DeleteMenuItem(m) ==
    /\ IF Exists(menu[m])
       THEN /\ menu' = [menu EXCEPT ![m] = [NoItem EXCEPT !.doc = "gone"]]
            /\ resp' = Resp("delete_menu_item", 200)
       ELSE /\ menu' = menu
            /\ resp' = Resp("delete_menu_item", 404)
    /\ UNCHANGED <<categories, deliveries, carts, addresses, orders, reviews, payments, notifications, inflight>>

----------------------------------------------------------------------------
(* Carts.  carts is the collection in insertion order; a cart's _id is its
   position.  A line of a cart: [_id, menu_item_id, price, quantity,
   subtotal] (name and image_url are copies that nothing reads back). *)

RECURSIVE SumSubtotals(_)
SumSubtotals(items) ==
    IF items = <<>> THEN 0
    ELSE Head(items).subtotal + SumSubtotals(Tail(items))

(* carts_collection.find_one({"user_id": u}): position of the cart, 0 if none *)
FindCartByUser(cs, u) ==
    LET S == {i \in 1..Len(cs) : cs[i].user_id = u}
    IN  IF S = {} THEN 0 ELSE Min(S)

NewCart(u) == [user_id |-> u, items |-> <<>>, total |-> 0]

(* "if not cart: insert_one(cart_data)" *)
GetOrCreateCart(cs, u) ==
    IF FindCartByUser(cs, u) = 0 THEN Append(cs, NewCart(u)) ELSE cs

(* first line for menu item m, 0 if none *)
FindLineByMenuItem(items, m) ==
    LET S == {i \in 1..Len(items) : items[i].menu_item_id = m}
    IN  IF S = {} THEN 0 ELSE Min(S)

(* first line with _id id, 0 if none *)
FindLineById(items, id) ==
    LET S == {i \in 1..Len(items) : items[i]._id = id}
    IN  IF S = {} THEN 0 ELSE Min(S)

UsedLineIds(cs) ==
    UNION {{cs[i].items[j]._id : j \in 1..Len(cs[i].items)} : i \in 1..Len(cs)}

(* str(ObjectId()): an id no stored line carries *)
FreshLineId(cs) ==
    Min({n \in 1..(Cardinality(UsedLineIds(cs)) + 1) : n \notin UsedLineIds(cs)})

(* position of the first cart of u that holds a line with this _id, 0 if none:
   the filter {"user_id": u, "items._id": id} *)
FindCartWithLine(cs, u, id) ==
    LET S == {i \in 1..Len(cs) : cs[i].user_id = u /\ FindLineById(cs[i].items, id) # 0}
    IN  IF S = {} THEN 0 ELSE Min(S)

SetLineOnAdd_Incremented(cs, u, id, q, price) ==
    LET c == FindCartWithLine(cs, u, id)
    IN  IF c = 0 THEN cs
        ELSE [cs EXCEPT ![c].items[FindLineById(cs[c].items, id)] =
                 [@ EXCEPT !.quantity = @ + q, !.price = price,
                           !.subtotal = price * (cs[c].items[FindLineById(cs[c].items, id)].quantity + q)]]

(* add_item_to_cart, existing line: $set items.$.quantity/price/subtotal *)
SetLineOnAdd(cs, u, id, q, price) ==
    LET c == FindCartWithLine(cs, u, id)
    IN  IF c = 0 THEN cs
        ELSE [cs EXCEPT ![c].items[FindLineById(cs[c].items, id)] =
                 [@ EXCEPT !.quantity = q, !.price = price, !.subtotal = price * q]]

(* update_cart_item: $set items.$.quantity/subtotal, the stored price is kept *)
SetLineOnUpdate(cs, u, id, q, subtotal) ==
    LET c == FindCartWithLine(cs, u, id)
    IN  IF c = 0 THEN cs
        ELSE [cs EXCEPT ![c].items[FindLineById(cs[c].items, id)] =
                 [@ EXCEPT !.quantity = q, !.subtotal = subtotal]]

(* $push {"items": new_item} on the cart of u *)
PushLine(cs, u, line) ==
    LET c == FindCartByUser(cs, u)
    IN  IF c = 0 THEN cs ELSE [cs EXCEPT ![c].items = Append(@, line)]

(* $pull {"items": {"_id": id}} on the cart of u *)
PullLine(cs, u, id) ==
    LET c == FindCartByUser(cs, u)
    IN  IF c = 0 THEN cs
        ELSE [cs EXCEPT ![c].items = SelectSeq(@, LAMBDA l : l._id # id)]

SetTotal(cs, u, total) ==
    LET c == FindCartByUser(cs, u)
    IN  IF c = 0 THEN cs ELSE [cs EXCEPT ![c].total = total]

RecomputeTotal_NotPersisted(cs, u) == cs

(* "Get updated cart ... Calculate total ... Update total in database" *)
RecomputeTotal(cs, u) ==
    SetTotal(cs, u, SumSubtotals(cs[FindCartByUser(cs, u)].items))

(* get_user_cart: creates the cart when there is none; the total it returns
   is computed for the response and not stored *)
GetUserCart(u) ==
    /\ carts' = GetOrCreateCart(carts, u)
    /\ resp' = Resp("get_user_cart", 200)
    /\ UNCHANGED <<categories, deliveries, menu, addresses, orders, reviews, payments, notifications, inflight>>

(* add_item_to_cart *)
AddItemToCart(u, m, q) ==
    /\ UNCHANGED <<categories, deliveries, menu, addresses, orders, reviews, payments, notifications, inflight>>
    /\ IF ~Exists(menu[m])
       THEN carts' = carts /\ resp' = Resp("add_item_to_cart", 404)
       ELSE IF ~IsAvailable(menu[m])
       THEN carts' = carts /\ resp' = Resp("add_item_to_cart", 400)
       ELSE LET cs1 == GetOrCreateCart(carts, u)
                cart == cs1[FindCartByUser(cs1, u)]
                k == FindLineByMenuItem(cart.items, m)
            IN  IF menu[m].price = None
                THEN (* menu_item["price"] raises KeyError *)
                     carts' = cs1 /\ resp' = Resp("add_item_to_cart", 500)
                ELSE LET item_price == Val(menu[m].price)
                         new_item == [_id |-> FreshLineId(cs1), menu_item_id |-> m,
                                      price |-> item_price, quantity |-> q,
                                      subtotal |-> item_price * q]
                         cs2 == IF k # 0
                                THEN SetLineOnAdd(cs1, u, cart.items[k]._id, q, item_price)
                                ELSE PushLine(cs1, u, new_item)
                     IN  /\ carts' = RecomputeTotal(cs2, u)
                         /\ resp' = Resp("add_item_to_cart", 200)

(* update_cart_item *)
UpdateCartItem(u, item_id, q) ==
    /\ UNCHANGED <<categories, deliveries, menu, addresses, orders, reviews, payments, notifications, inflight>>
    /\ LET c == FindCartByUser(carts, u)
       IN  IF c = 0 \/ FindLineById(carts[c].items, item_id) = 0
           THEN carts' = carts /\ resp' = Resp("update_cart_item", 404)
           ELSE LET item == carts[c].items[FindLineById(carts[c].items, item_id)]
                    cs1 == SetLineOnUpdate(carts, u, item_id, q, item.price * q)
                IN  /\ carts' = RecomputeTotal(cs1, u)
                    /\ resp' = Resp("update_cart_item", 200)

(* remove_cart_item *)
RemoveCartItem(u, item_id) ==
    /\ UNCHANGED <<categories, deliveries, menu, addresses, orders, reviews, payments, notifications, inflight>>
    /\ LET c == FindCartByUser(carts, u)
       IN  IF c = 0 \/ FindLineById(carts[c].items, item_id) = 0
           THEN carts' = carts /\ resp' = Resp("remove_cart_item", 404)
           ELSE /\ carts' = RecomputeTotal(PullLine(carts, u, item_id), u)
                /\ resp' = Resp("remove_cart_item", 200)

(* clear_cart: $set items = [], total = 0 *)
ClearCart(u) ==
    /\ UNCHANGED <<categories, deliveries, menu, addresses, orders, reviews, payments, notifications, inflight>>
    /\ LET c == FindCartByUser(carts, u)
       IN  IF c = 0
           THEN carts' = carts /\ resp' = Resp("clear_cart", 404)
           ELSE /\ carts' = [carts EXCEPT ![c].items = <<>>, ![c].total = 0]
                /\ resp' = Resp("clear_cart", 200)

----------------------------------------------------------------------------
(* Addresses.  addresses is the collection in insertion order, an address's
   _id is its position; a deleted document keeps its position with
   live = FALSE.  is_default is Some(TRUE), Some(FALSE) or None (null). *)

NoAddress == [user_id |-> "", is_default |-> None, live |-> FALSE]

UserAddresses(as, u) == {i \in 1..Len(as) : as[i].live /\ as[i].user_id = u}

FindAddress(as, a, u) == a \in UserAddresses(as, u)

IsDefault(addr) == addr.is_default = Some(TRUE)

(* update_many({"user_id": u, "_id": {"$ne": except}}, is_default = False);
   except = 0 leaves no address out *)
UnsetDefaults(as, u, except) ==
    [i \in 1..Len(as) |->
        IF i \in UserAddresses(as, u) /\ i # except
        THEN [as[i] EXCEPT !.is_default = Some(FALSE)] ELSE as[i]]

CreatedIsDefault_AsAsked(as, u, is_default) == is_default

(* "if address_count == 0: address_in.is_default = True" *)
CreatedIsDefault(as, u, is_default) ==
    IF Cardinality(UserAddresses(as, u)) = 0 THEN TRUE ELSE is_default

(* create_address *)
CreateAddress(u, is_default) ==
    /\ Len(addresses) < MaxAddresses
    /\ LET d == CreatedIsDefault(addresses, u, is_default)
           as1 == IF d THEN UnsetDefaults(addresses, u, 0) ELSE addresses
       IN  addresses' = Append(as1, [user_id |-> u, is_default |-> Some(d), live |-> TRUE])
    /\ resp' = Resp("create_address", 201)
    /\ UNCHANGED <<categories, deliveries, menu, carts, orders, reviews, payments, notifications, inflight>>

(* the is_default entry of update_data: None when the request leaves the
   field out, Some(v) when it carries the value v (v itself None for null) *)
IsDefaultUpdates == {None, Some(None), Some(Some(TRUE)), Some(Some(FALSE))}

(* update_data.get("is_default") is truthy *)
AsksDefault(upd) == upd = Some(Some(TRUE))

(* update_address *)
UpdateAddress(u, a, upd) ==
    /\ UNCHANGED <<categories, deliveries, menu, carts, orders, reviews, payments, notifications, inflight>>
    /\ IF ~FindAddress(addresses, a, u)
       THEN addresses' = addresses /\ resp' = Resp("update_address", 404)
       ELSE /\ resp' = Resp("update_address", 200)
            /\ IF upd = None
               THEN addresses' = addresses
               ELSE LET as1 == IF AsksDefault(upd)
                               THEN UnsetDefaults(addresses, u, a) ELSE addresses
                    IN  addresses' = [as1 EXCEPT ![a].is_default = Val(upd)]

(* delete_address: "Find another address to make default" *)
PromoteOther(as, other) == [as EXCEPT ![other].is_default = Some(TRUE)]

DeleteAddress(u, a) ==
    /\ UNCHANGED <<categories, deliveries, menu, carts, orders, reviews, payments, notifications, inflight>>
    /\ IF ~FindAddress(addresses, a, u)
       THEN addresses' = addresses /\ resp' = Resp("delete_address", 404)
       ELSE /\ resp' = Resp("delete_address", 200)
            /\ LET others == UserAddresses(addresses, u) \ {a}
               IN  IF IsDefault(addresses[a]) /\ others # {}
                   THEN \E other \in others :
                           addresses' = [PromoteOther(addresses, other) EXCEPT ![a] = NoAddress]
                   ELSE addresses' = [addresses EXCEPT ![a] = NoAddress]

----------------------------------------------------------------------------
(* Orders.  orders is the collection in insertion order, an order's _id is
   its position; orders are never deleted. *)

OrderStatuses == {"PENDING", "CONFIRMED", "PREPARING", "READY", "EN_ROUTE",
                  "DELIVERED", "CANCELLED"}

(* carts_collection.find_one({"_id": cart_id, "user_id": u}) *)
FindCartById(cs, c, u) == c \in 1..Len(cs) /\ cs[c].user_id = u

(* the loop over cart["items"]: the status of the first line that fails
   (404 item gone, 400 item unavailable, 500 item without price), 0 if none *)
RECURSIVE LinesError(_, _)
LinesError(mn, items) ==
    IF items = <<>> THEN 0
    ELSE LET mi == mn[Head(items).menu_item_id]
         IN  IF ~Exists(mi) THEN 404
             ELSE IF ~IsAvailable(mi) THEN 400
             ELSE IF mi.price = None THEN 500
             ELSE LinesError(mn, Tail(items))

OrderLine_CartPrice(cart_item, menu_item) ==
    [menu_item_id |-> cart_item.menu_item_id,
     price |-> cart_item.price,
     quantity |-> cart_item.quantity,
     subtotal |-> cart_item.subtotal]

(* "Calculate item subtotal ... Create order item" *)
OrderLine(cart_item, menu_item) ==
    [menu_item_id |-> cart_item.menu_item_id,
     price |-> Val(menu_item.price),
     quantity |-> cart_item.quantity,
     subtotal |-> Val(menu_item.price) * cart_item.quantity]

OrderLines(mn, items) ==
    [k \in 1..Len(items) |-> OrderLine(items[k], mn[items[k].menu_item_id])]

NewOrder_TaxOnTotal(u, a, lines) ==
    LET subtotal == SumSubtotals(lines)
        tax == ((subtotal * Scale + DeliveryFeeScaled) * TaxRateScaled) \div Scale
    IN  [user_id |-> u, items |-> lines, delivery_address_id |-> a,
         subtotal |-> subtotal,
         delivery_fee |-> DeliveryFeeScaled,
         tax |-> tax,
         total_amount |-> subtotal * Scale + DeliveryFeeScaled + tax,
         status |-> "PENDING", payment_status |-> "PENDING",
         payment_reference |-> None, delivery_status |-> None]

(* order_data.  subtotal is in whole units; delivery_fee, tax and
   total_amount are in thousandths: 5.00 is 5000 and subtotal * 0.075 is
   subtotal * 75 *)
NewOrder(u, a, lines) ==
    LET subtotal == SumSubtotals(lines)
        tax == subtotal * TaxRateScaled
    IN  [user_id |-> u, items |-> lines, delivery_address_id |-> a,
         subtotal |-> subtotal,
         delivery_fee |-> DeliveryFeeScaled,
         tax |-> tax,
         total_amount |-> subtotal * Scale + DeliveryFeeScaled + tax,
         status |-> "PENDING", payment_status |-> "PENDING",
         payment_reference |-> None, delivery_status |-> None]

(* "Clear cart after order is created": $set items = [] on the cart *)
ClearCartAfterOrder(cs, c) == [cs EXCEPT ![c].items = <<>>]

CreateOrderError_AnyAddress(cs, as, mn, u, c, a) ==
    IF ~FindCartById(cs, c, u) THEN 404
    ELSE IF cs[c].items = <<>> THEN 400
    ELSE LinesError(mn, cs[c].items)

(* the status create_order fails with before it writes anything, 0 if none *)
CreateOrderError(cs, as, mn, u, c, a) ==
    IF ~FindCartById(cs, c, u) THEN 404
    ELSE IF cs[c].items = <<>> THEN 400
    ELSE IF ~FindAddress(as, a, u) THEN 404
    ELSE LinesError(mn, cs[c].items)

(* create_order *)
CreateOrder(u, c, a) ==
    /\ UNCHANGED <<categories, deliveries, menu, addresses, reviews, payments, notifications, inflight>>
    /\ LET err == CreateOrderError(carts, addresses, menu, u, c, a)
       IN  IF err # 0
           THEN carts' = carts /\ orders' = orders /\ resp' = Resp("create_order", err)
           ELSE /\ Len(orders) < MaxOrders
                /\ orders' = Append(orders, NewOrder(u, a, OrderLines(menu, carts[c].items)))
                /\ carts' = ClearCartAfterOrder(carts, c)
                /\ resp' = Resp("create_order", 201)

FindOrder_AnyUser(os, o, u) == o \in 1..Len(os)

(* orders_collection.find_one({"_id": o, "user_id": u}) *)
FindOrder(os, o, u) == o \in 1..Len(os) /\ os[o].user_id = u

CanCancel_UntilReady(status) == status \in {"PENDING", "CONFIRMED", "PREPARING"}

(* "Check if order can be cancelled" *)
CanCancel(status) == status \in {"PENDING", "CONFIRMED"}

(* cancel_order *)
CancelOrder(u, o) ==
    /\ UNCHANGED <<categories, deliveries, menu, carts, addresses, reviews, payments, notifications, inflight>>
    /\ IF ~FindOrder(orders, o, u)
       THEN orders' = orders /\ resp' = Resp("cancel_order", 404)
       ELSE IF ~CanCancel(orders[o].status)
       THEN orders' = orders /\ resp' = Resp("cancel_order", 400)
       ELSE /\ orders' = [orders EXCEPT ![o].status = "CANCELLED"]
            /\ resp' = Resp("cancel_order", 200)

(* update_order_status (admin): sets any status on any order.  The parameter
   named status hides the status module, so raising the 404 of a missing
   order fails on status.HTTP_404_NOT_FOUND and the answer is 500 *)
UpdateOrderStatus(o, status) ==
    /\ UNCHANGED <<categories, deliveries, menu, carts, addresses, reviews, payments, notifications, inflight>>
    /\ IF o \notin 1..Len(orders)
       THEN orders' = orders /\ resp' = Resp("update_order_status", 500)
       ELSE /\ orders' = [orders EXCEPT ![o].status = status]
            /\ resp' = Resp("update_order_status", 200)

----------------------------------------------------------------------------
(* Deliveries.  deliveries is the collection in insertion order; a delivery
   is found by its order_id.  status_history is the set of statuses that
   have a timestamp. *)

DeliveryStatuses == {"PREPARING", "EN_ROUTE", "ARRIVED", "DELIVERED"}
Drivers == {"d1"}

(* deliveries_collection.find_one({"order_id": o}): position, 0 if none *)
FindDelivery(ds, o) ==
    LET S == {i \in 1..Len(ds) : ds[i].order_id = o}
    IN  IF S = {} THEN 0 ELSE Min(S)

(* delivery_data *)
NewDelivery(os, o, status, driver) ==
    [order_id |-> o, user_id |-> os[o].user_id, status |-> status,
     driver_id |-> driver, status_history |-> {status}]

MirrorDeliveryStatus_FeeWaived(os, o, status) ==
    [os EXCEPT ![o].delivery_status = Some(status),
               ![o].delivery_fee = 0,
               ![o].total_amount = os[o].subtotal * Scale + os[o].tax]

(* orders_collection.update_one({"_id": o}, $set delivery_status) *)
MirrorDeliveryStatus(os, o, status) ==
    [os EXCEPT ![o].delivery_status = Some(status)]

(* update_delivery_status, behind the four admin routes.  Its parameter
   named status hides the status module, so the 404 of a missing order
   fails on status.HTTP_404_NOT_FOUND and the answer is 500 *)
UpdateDeliveryStatus(o, status) ==
    /\ UNCHANGED <<categories, menu, carts, addresses, reviews, payments, notifications, inflight>>
    /\ IF o \notin 1..Len(orders)
       THEN /\ UNCHANGED <<orders, deliveries>>
            /\ resp' = Resp("update_delivery_status", 500)
       ELSE /\ LET i == FindDelivery(deliveries, o)
               IN  deliveries' =
                      IF i # 0
                      THEN [deliveries EXCEPT
                               ![i].status = status,
                               ![i].status_history = deliveries[i].status_history \cup {status}]
                      ELSE Append(deliveries, NewDelivery(orders, o, status, None))
            /\ orders' = MirrorDeliveryStatus(orders, o, status)
            /\ resp' = Resp("update_delivery_status", 200)

(* assign_driver (admin): the order's delivery_status is written only when
   the delivery is created here *)
AssignDriver(o, driver) ==
    /\ UNCHANGED <<categories, menu, carts, addresses, reviews, payments, notifications, inflight>>
    /\ IF o \notin 1..Len(orders)
       THEN /\ UNCHANGED <<orders, deliveries>>
            /\ resp' = Resp("assign_driver", 404)
       ELSE /\ LET i == FindDelivery(deliveries, o)
               IN  IF i # 0
                   THEN /\ deliveries' = [deliveries EXCEPT ![i].driver_id = Some(driver)]
                        /\ orders' = orders
                   ELSE /\ deliveries' = Append(deliveries,
                               NewDelivery(orders, o, "ASSIGNED", Some(driver)))
                        /\ orders' = MirrorDeliveryStatus(orders, o, "ASSIGNED")
            /\ resp' = Resp("assign_driver", 200)

----------------------------------------------------------------------------
(* Reviews.  reviews is the collection in insertion order, a review's _id is
   its position; a deleted review leaves NoReview at its position.  rating
   is Some(n), or None once an update has stored null. *)

NoReview == [live |-> FALSE, menu_item_id |-> "", user_id |-> "", rating |-> None]

(* reviews_collection.find({"menu_item_id": m}) *)
ItemReviews(rs, m) == {i \in 1..Len(rs) : rs[i].live /\ rs[i].menu_item_id = m}

ExistingReview_WrongField(rs, u, m) ==
    \E i \in 1..Len(rs) : rs[i].live /\ rs[i].user_id = m /\ rs[i].menu_item_id = m

(* reviews_collection.find_one({"user_id": u, "menu_item_id": m}) *)
ExistingReview(rs, u, m) ==
    \E i \in 1..Len(rs) : rs[i].live /\ rs[i].user_id = u /\ rs[i].menu_item_id = m

(* sum(...) raises TypeError when a stored rating is None *)
SumRaises(rs, m) == \E i \in ItemReviews(rs, m) : rs[i].rating = None

RECURSIVE SumRatingsOver(_, _)
SumRatingsOver(rs, S) ==
    IF S = {} THEN 0
    ELSE LET i == Min(S)
         IN  (IF rs[i].rating = None THEN 0 ELSE Val(rs[i].rating))
             + SumRatingsOver(rs, S \ {i})

(* review.get("rating", 0) summed over the reviews of the item *)
TotalRating(rs, m) == SumRatingsOver(rs, ItemReviews(rs, m))

RECURSIVE GCD(_, _)
GCD(a, b) == IF b = 0 THEN a ELSE GCD(b, a % b)

(* the quotient total / n as a fraction in lowest terms <<numerator,
   denominator>>; the integer 0 is <<0, 1>> *)
Quotient(total, n) ==
    IF total = 0 THEN <<0, 1>>
    ELSE <<total \div GCD(total, n), n \div GCD(total, n)>>

(* "avg_rating = total_rating / len(all_reviews) if all_reviews else 0" *)
AvgRating(rs, m) ==
    IF ItemReviews(rs, m) = {} THEN <<0, 1>>
    ELSE Quotient(TotalRating(rs, m), Cardinality(ItemReviews(rs, m)))

(* update_one on the menu item: $set avg_rating and review_count; no
   document is touched when the item is gone *)
SetRatingAndCount(mn, rs, m) ==
    IF ~Exists(mn[m]) THEN mn
    ELSE [mn EXCEPT ![m].avg_rating = Some(AvgRating(rs, m)),
                    ![m].review_count = Some(Cardinality(ItemReviews(rs, m)))]

(* update_review: $set avg_rating only *)
SetRating(mn, rs, m) ==
    IF ~Exists(mn[m]) THEN mn
    ELSE [mn EXCEPT ![m].avg_rating = Some(AvgRating(rs, m))]

(* create_review *)
CreateReview(u, m, rating) ==
    /\ UNCHANGED <<categories, deliveries, carts, addresses, orders, payments, notifications, inflight>>
    /\ IF ~Exists(menu[m])
       THEN reviews' = reviews /\ menu' = menu /\ resp' = Resp("create_review", 404)
       ELSE IF ExistingReview(reviews, u, m)
       THEN reviews' = reviews /\ menu' = menu /\ resp' = Resp("create_review", 400)
       ELSE /\ Len(reviews) < MaxReviews
            /\ reviews' = Append(reviews, [live |-> TRUE, menu_item_id |-> m,
                                           user_id |-> u, rating |-> Some(rating)])
            /\ IF SumRaises(reviews', m)
               THEN menu' = menu /\ resp' = Resp("create_review", 500)
               ELSE /\ menu' = SetRatingAndCount(menu, reviews', m)
                    /\ resp' = Resp("create_review", 201)

(* the rating entry of update_data: None when the request leaves rating out,
   Some(None) when it carries null, Some(Some(n)) when it carries n *)
RatingUpdates == {None, Some(None)} \cup {Some(Some(n)) : n \in Ratings}

(* reviews_collection.find_one({"_id": id, "user_id": u}) *)
FindOwnReview(rs, id, u) == id \in 1..Len(rs) /\ rs[id].live /\ rs[id].user_id = u

(* update_review *)
UpdateReview(u, id, upd) ==
    /\ UNCHANGED <<categories, deliveries, carts, addresses, orders, payments, notifications, inflight>>
    /\ IF ~FindOwnReview(reviews, id, u)
       THEN reviews' = reviews /\ menu' = menu /\ resp' = Resp("update_review", 404)
       ELSE IF upd = None
       THEN reviews' = reviews /\ menu' = menu /\ resp' = Resp("update_review", 200)
       ELSE /\ reviews' = [reviews EXCEPT ![id].rating = Val(upd)]
            /\ IF SumRaises(reviews', reviews[id].menu_item_id)
               THEN menu' = menu /\ resp' = Resp("update_review", 500)
               ELSE /\ menu' = SetRating(menu, reviews', reviews[id].menu_item_id)
                    /\ resp' = Resp("update_review", 200)

(* delete_review: an admin may delete any review *)
FindReviewToDelete(rs, id, u) ==
    IF u \in Admins THEN id \in 1..Len(rs) /\ rs[id].live
    ELSE FindOwnReview(rs, id, u)

DeleteReview(u, id) ==
    /\ UNCHANGED <<categories, deliveries, carts, addresses, orders, payments, notifications, inflight>>
    /\ IF ~FindReviewToDelete(reviews, id, u)
       THEN reviews' = reviews /\ menu' = menu /\ resp' = Resp("delete_review", 404)
       ELSE /\ reviews' = [reviews EXCEPT ![id] = NoReview]
            /\ IF SumRaises(reviews', reviews[id].menu_item_id)
               THEN menu' = menu /\ resp' = Resp("delete_review", 500)
               ELSE /\ menu' = SetRatingAndCount(menu, reviews', reviews[id].menu_item_id)
                    /\ resp' = Resp("delete_review", 200)

----------------------------------------------------------------------------
(* Payments.  payments is the collection in insertion order.  A reference
   ("order_<id>_<random token>") is written as the number of the
   initialisation that generated it.  transaction_data is None until a
   verification stores the gateway's data, then Some(its status).
   notifications holds what create_payment_notification has inserted. *)

(* what the gateway answers to transaction/initialize and transaction/verify:
   an HTTP status other than 200, a body whose status flag is false, or a
   body with data (for verify: data.status) *)
InitAnswers == {"http_error", "status_false", "ok"}
VerifyAnswers == {"http_error", "status_false", "success", "failed"}

GatewayFailed_HttpOnly(gw) == gw = "http_error"

(* 'response.status_code != 200', then 'not data["status"]' *)
GatewayFailed(gw) == gw \in {"http_error", "status_false"}

(* 'payment_status = "PAID" if data["data"]["status"] == "success" else "FAILED"' *)
VerifiedStatus(gw) == IF gw = "success" THEN "PAID" ELSE "FAILED"

(* payments_collection.find_one({"reference": ref}): position, 0 if none *)
FindPayment(ps, ref) ==
    LET S == {i \in 1..Len(ps) : ps[i].reference = ref}
    IN  IF S = {} THEN 0 ELSE Min(S)

(* payments_collection.find_one({"reference": ref, "user_id": u}) *)
FindOwnPayment(ps, ref, u) ==
    LET S == {i \in 1..Len(ps) : ps[i].reference = ref /\ ps[i].user_id = u}
    IN  IF S = {} THEN 0 ELSE Min(S)

SetPaymentStatus_Inserted(ps, ref, st, data) ==
    LET i == FindPayment(ps, ref)
    IN  IF i = 0 THEN ps
        ELSE Append(ps, [ps[i] EXCEPT !.status = st, !.transaction_data = Some(data)])

(* payments_collection.update_one({"reference": ref}, $set status,
   transaction_data) *)
SetPaymentStatus(ps, ref, st, data) ==
    LET i == FindPayment(ps, ref)
    IN  IF i = 0 THEN ps
        ELSE [ps EXCEPT ![i].status = st, ![i].transaction_data = Some(data)]

(* orders_collection.update_one({"payment_reference": ref}, $set
   payment_status) *)
SetOrderPaymentStatus(os, ref, st) ==
    LET S == {i \in 1..Len(os) : os[i].payment_reference = Some(ref)}
    IN  IF S = {} THEN os ELSE [os EXCEPT ![Min(S)].payment_status = st]

(* create_payment_notification, run as a background task *)
Notify(ns, u, o, st, ref) ==
    Append(ns, [user_id |-> u, order_id |-> o, payment_status |-> st, reference |-> ref])

AlreadyPaid_Never(os, o) == FALSE

(* 'if order.get("payment_status") == "PAID"' *)
AlreadyPaid(os, o) == os[o].payment_status = "PAID"

(* initialize_payment *)
InitializePayment(u, o, gw) ==
    /\ UNCHANGED <<categories, deliveries, menu, carts, addresses, reviews, inflight>>
    /\ IF ~FindOrder(orders, o, u)
       THEN /\ UNCHANGED <<orders, payments, notifications>>
            /\ resp' = RespArg("initialize_payment", 404, <<u, o, gw>>)
       ELSE IF AlreadyPaid(orders, o)
       THEN /\ UNCHANGED <<orders, payments, notifications>>
            /\ resp' = RespArg("initialize_payment", 400, <<u, o, gw>>)
       ELSE IF GatewayFailed(gw)
       THEN /\ UNCHANGED <<orders, payments, notifications>>
            /\ resp' = RespArg("initialize_payment", 500, <<u, o, gw>>)
       ELSE /\ Len(payments) < MaxPayments
            /\ Len(notifications) < MaxNotifications
            /\ LET reference == Len(payments) + 1
               IN  /\ payments' = Append(payments,
                          [order_id |-> o, user_id |-> u,
                           amount |-> orders[o].total_amount,
                           reference |-> reference, status |-> "PENDING",
                           transaction_data |-> None])
                   /\ orders' = [orders EXCEPT ![o].payment_reference = Some(reference),
                                               ![o].payment_status = "PENDING"]
                   /\ notifications' = Notify(notifications, u, o, "PENDING", reference)
            /\ resp' = RespArg("initialize_payment", 200, <<u, o, gw>>)

(* what a handler leaves in the store and answers *)
Outcome(ps, os, ns, code) ==
    [payments |-> ps, orders |-> os, notifications |-> ns, code |-> code]

(* verify_payment, from the stored ps, os, ns *)
VerifyPaymentResult(ps, os, ns, u, ref, gw) ==
    IF FindOwnPayment(ps, ref, u) = 0 THEN Outcome(ps, os, ns, 404)
    ELSE IF GatewayFailed(gw) THEN Outcome(ps, os, ns, 500)
    ELSE Outcome(SetPaymentStatus(ps, ref, VerifiedStatus(gw), gw),
                 SetOrderPaymentStatus(os, ref, VerifiedStatus(gw)),
                 Notify(ns, u, ps[FindOwnPayment(ps, ref, u)].order_id,
                        VerifiedStatus(gw), ref),
                 200)

PaystackCallbackResult_PaymentOnly(ps, os, ns, ref, gw) ==
    IF GatewayFailed(gw) THEN Outcome(ps, os, ns, 200)
    ELSE LET ps2 == SetPaymentStatus(ps, ref, VerifiedStatus(gw), gw)
             i == FindPayment(ps2, ref)
         IN  Outcome(ps2, os,
                     IF i = 0 THEN ns
                     ELSE Notify(ns, ps2[i].user_id, ps2[i].order_id,
                                 VerifiedStatus(gw), ref),
                     200)

(* paystack_callback, from the stored ps, os, ns: unauthenticated; a gateway
   failure is answered with HTTP 200 and success = False; the payment is
   read back after the updates and a notification goes to its user *)
PaystackCallbackResult(ps, os, ns, ref, gw) ==
    IF GatewayFailed(gw) THEN Outcome(ps, os, ns, 200)
    ELSE LET ps2 == SetPaymentStatus(ps, ref, VerifiedStatus(gw), gw)
             i == FindPayment(ps2, ref)
         IN  Outcome(ps2,
                     SetOrderPaymentStatus(os, ref, VerifiedStatus(gw)),
                     IF i = 0 THEN ns
                     ELSE Notify(ns, ps2[i].user_id, ps2[i].order_id,
                                 VerifiedStatus(gw), ref),
                     200)

(* verify_payment *)
VerifyPayment(u, ref, gw) ==
    LET r == VerifyPaymentResult(payments, orders, notifications, u, ref, gw)
    IN  /\ UNCHANGED <<categories, deliveries, menu, carts, addresses, reviews, inflight>>
        /\ Len(r.notifications) <= MaxNotifications
        /\ payments' = r.payments
        /\ orders' = r.orders
        /\ notifications' = r.notifications
        /\ resp' = RespArg("verify_payment", r.code, <<u, ref, gw>>)

(* paystack_callback *)
PaystackCallback(ref, gw) ==
    LET r == PaystackCallbackResult(payments, orders, notifications, ref, gw)
    IN  /\ UNCHANGED <<categories, deliveries, menu, carts, addresses, reviews, inflight>>
        /\ Len(r.notifications) <= MaxNotifications
        /\ payments' = r.payments
        /\ orders' = r.orders
        /\ notifications' = r.notifications
        /\ resp' = RespArg("paystack_callback", r.code, <<ref, gw>>)

----------------------------------------------------------------------------
(* create_order, one store call at a time.  inflight[w] is the request that
   worker w is serving: its arguments, the cart items it read, the order
   lines it has priced so far and the store call it makes next (pc). *)

Idle == [pc |-> "idle", user |-> "", cart_id |-> 0, address_id |-> 0,
         items |-> <<>>, lines |-> <<>>]

(* carts_collection.find_one, then "Check if cart has items" *)
CreateOrderFindCart(w, u, c, a) ==
    /\ inflight[w].pc = "idle"
    /\ UNCHANGED <<categories, deliveries, menu, carts, addresses, orders, reviews, payments, notifications>>
    /\ IF ~FindCartById(carts, c, u)
       THEN inflight' = inflight /\ resp' = Resp("create_order", 404)
       ELSE IF carts[c].items = <<>>
       THEN inflight' = inflight /\ resp' = Resp("create_order", 400)
       ELSE /\ inflight' = [inflight EXCEPT ![w] =
                   [pc |-> "find_address", user |-> u, cart_id |-> c,
                    address_id |-> a, items |-> carts[c].items, lines |-> <<>>]]
            /\ resp' = resp

(* addresses_collection.find_one *)
CreateOrderFindAddress(w) ==
    /\ inflight[w].pc = "find_address"
    /\ UNCHANGED <<categories, deliveries, menu, carts, addresses, orders, reviews, payments, notifications>>
    /\ IF ~FindAddress(addresses, inflight[w].address_id, inflight[w].user)
       THEN inflight' = [inflight EXCEPT ![w] = Idle] /\ resp' = Resp("create_order", 404)
       ELSE inflight' = [inflight EXCEPT ![w].pc = "find_item"] /\ resp' = resp

(* one turn of the loop: menu_items_collection.find_one for the next line *)
CreateOrderFindItem(w) ==
    /\ inflight[w].pc = "find_item"
    /\ UNCHANGED <<categories, deliveries, menu, carts, addresses, orders, reviews, payments, notifications>>
    /\ LET r == inflight[w]
           cart_item == r.items[Len(r.lines) + 1]
           err == LinesError(menu, <<cart_item>>)
       IN  IF err # 0
           THEN inflight' = [inflight EXCEPT ![w] = Idle] /\ resp' = Resp("create_order", err)
           ELSE /\ inflight' = [inflight EXCEPT
                      ![w].lines = Append(@, OrderLine(cart_item, menu[cart_item.menu_item_id])),
                      ![w].pc = IF Len(r.lines) + 1 = Len(r.items) THEN "insert" ELSE "find_item"]
                /\ resp' = resp

CreateOrderInsert_IfCartStillFull(w) ==
    /\ inflight[w].pc = "insert"
    /\ Len(orders) < MaxRacingOrders
    /\ carts[inflight[w].cart_id].items # <<>>
    /\ orders' = Append(orders, NewOrder(inflight[w].user, inflight[w].address_id,
                                         inflight[w].lines))
    /\ inflight' = [inflight EXCEPT ![w].pc = "clear"]
    /\ UNCHANGED <<categories, deliveries, menu, carts, addresses, reviews, payments, notifications, resp>>

(* orders_collection.insert_one *)
CreateOrderInsert(w) ==
    /\ inflight[w].pc = "insert"
    /\ Len(orders) < MaxRacingOrders
    /\ orders' = Append(orders, NewOrder(inflight[w].user, inflight[w].address_id,
                                         inflight[w].lines))
    /\ inflight' = [inflight EXCEPT ![w].pc = "clear"]
    /\ UNCHANGED <<categories, deliveries, menu, carts, addresses, reviews, payments, notifications, resp>>

(* carts_collection.update_one, then the response *)
CreateOrderClear(w) ==
    /\ inflight[w].pc = "clear"
    /\ carts' = ClearCartAfterOrder(carts, inflight[w].cart_id)
    /\ inflight' = [inflight EXCEPT ![w] = Idle]
    /\ resp' = Resp("create_order", 201)
    /\ UNCHANGED <<categories, deliveries, menu, addresses, orders, reviews, payments, notifications>>

(* the request ends before its next store call: the call raises (the store
   is unreachable) or the worker is stopped; nothing is undone *)
RequestStops(w) ==
    /\ inflight[w].pc # "idle"
    /\ inflight' = [inflight EXCEPT ![w] = Idle]
    /\ resp' = Resp("create_order", 500)
    /\ UNCHANGED <<categories, deliveries, menu, carts, addresses, orders, reviews, payments, notifications>>

----------------------------------------------------------------------------
(* The review handlers, one store call at a time.  inflight[w] is the
   request worker w is serving: the handler (op), its arguments, the review
   and the menu item it works on, and after the re-scan the aggregates it is
   about to write. *)

ReviewRequest(pc, op, u, m, id, rating) ==
    [pc |-> pc, op |-> op, user |-> u, menu_item_id |-> m, review_id |-> id,
     rating |-> rating, avg_rating |-> <<0, 1>>, review_count |-> 0]

(* create_review: menu_items_collection.find_one *)
CreateReviewFindItem(w, u, m, rating) ==
    /\ inflight[w].pc = "idle"
    /\ UNCHANGED <<categories, deliveries, menu, carts, addresses, orders, reviews, payments, notifications>>
    /\ IF ~Exists(menu[m])
       THEN inflight' = inflight /\ resp' = Resp("create_review", 404)
       ELSE /\ inflight' = [inflight EXCEPT ![w] =
                   ReviewRequest("find_existing", "create_review", u, m, 0, Some(rating))]
            /\ resp' = resp

(* create_review: reviews_collection.find_one({"user_id", "menu_item_id"}) *)
CreateReviewFindExisting(w) ==
    /\ inflight[w].pc = "find_existing"
    /\ UNCHANGED <<categories, deliveries, menu, carts, addresses, orders, reviews, payments, notifications>>
    /\ IF ExistingReview(reviews, inflight[w].user, inflight[w].menu_item_id)
       THEN inflight' = [inflight EXCEPT ![w] = Idle] /\ resp' = Resp("create_review", 400)
       ELSE inflight' = [inflight EXCEPT ![w].pc = "insert_review"] /\ resp' = resp

(* create_review: reviews_collection.insert_one *)
CreateReviewInsert(w) ==
    /\ inflight[w].pc = "insert_review"
    /\ Len(reviews) < MaxReviews
    /\ reviews' = Append(reviews, [live |-> TRUE,
                                   menu_item_id |-> inflight[w].menu_item_id,
                                   user_id |-> inflight[w].user,
                                   rating |-> inflight[w].rating])
    /\ inflight' = [inflight EXCEPT ![w].pc = "find_all", ![w].review_id = Len(reviews')]
    /\ UNCHANGED <<categories, deliveries, menu, carts, addresses, orders, payments, notifications, resp>>

(* update_review: reviews_collection.find_one({"_id", "user_id"}); a request
   without rating writes nothing that the aggregates depend on *)
UpdateReviewFind(w, u, id, upd) ==
    /\ inflight[w].pc = "idle"
    /\ UNCHANGED <<categories, deliveries, menu, carts, addresses, orders, reviews, payments, notifications>>
    /\ IF ~FindOwnReview(reviews, id, u)
       THEN inflight' = inflight /\ resp' = Resp("update_review", 404)
       ELSE IF upd = None
       THEN inflight' = inflight /\ resp' = Resp("update_review", 200)
       ELSE /\ inflight' = [inflight EXCEPT ![w] =
                   ReviewRequest("set_review", "update_review", u,
                                 reviews[id].menu_item_id, id, Val(upd))]
            /\ resp' = resp

(* update_review: reviews_collection.update_one({"_id"}, $set); a review
   deleted in the meantime is not matched *)
UpdateReviewSet(w) ==
    /\ inflight[w].pc = "set_review"
    /\ reviews' = IF reviews[inflight[w].review_id].live
                  THEN [reviews EXCEPT ![inflight[w].review_id].rating = inflight[w].rating]
                  ELSE reviews
    /\ inflight' = [inflight EXCEPT ![w].pc = "find_all"]
    /\ UNCHANGED <<categories, deliveries, menu, carts, addresses, orders, payments, notifications, resp>>

(* delete_review: reviews_collection.find_one *)
DeleteReviewFind(w, u, id) ==
    /\ inflight[w].pc = "idle"
    /\ UNCHANGED <<categories, deliveries, menu, carts, addresses, orders, reviews, payments, notifications>>
    /\ IF ~FindReviewToDelete(reviews, id, u)
       THEN inflight' = inflight /\ resp' = Resp("delete_review", 404)
       ELSE /\ inflight' = [inflight EXCEPT ![w] =
                   ReviewRequest("delete_review", "delete_review", u,
                                 reviews[id].menu_item_id, id, None)]
            /\ resp' = resp

(* delete_review: reviews_collection.delete_one *)
DeleteReviewDelete(w) ==
    /\ inflight[w].pc = "delete_review"
    /\ reviews' = [reviews EXCEPT ![inflight[w].review_id] = NoReview]
    /\ inflight' = [inflight EXCEPT ![w].pc = "find_all"]
    /\ UNCHANGED <<categories, deliveries, menu, carts, addresses, orders, payments, notifications, resp>>

(* the re-scan of all three handlers: reviews_collection.find({"menu_item_id"}),
   then sum and len in the handler *)
ReviewFindAll(w) ==
    /\ inflight[w].pc = "find_all"
    /\ UNCHANGED <<categories, deliveries, menu, carts, addresses, orders, reviews, payments, notifications>>
    /\ IF SumRaises(reviews, inflight[w].menu_item_id)
       THEN inflight' = [inflight EXCEPT ![w] = Idle] /\ resp' = Resp(inflight[w].op, 500)
       ELSE /\ inflight' = [inflight EXCEPT
                   ![w].pc = "set_aggregates",
                   ![w].avg_rating = AvgRating(reviews, inflight[w].menu_item_id),
                   ![w].review_count =
                       Cardinality(ItemReviews(reviews, inflight[w].menu_item_id))]
            /\ resp' = resp

(* menu_items_collection.update_one with the aggregates of the re-scan:
   update_review sets avg_rating only *)
StoreAggregates(mn, m, op, avg, count) ==
    IF ~Exists(mn[m]) THEN mn
    ELSE IF op = "update_review" THEN [mn EXCEPT ![m].avg_rating = Some(avg)]
    ELSE [mn EXCEPT ![m].avg_rating = Some(avg), ![m].review_count = Some(count)]

ReviewSetAggregates(w) ==
    /\ inflight[w].pc = "set_aggregates"
    /\ menu' = StoreAggregates(menu, inflight[w].menu_item_id, inflight[w].op,
                               inflight[w].avg_rating, inflight[w].review_count)
    /\ inflight' = [inflight EXCEPT ![w] = Idle]
    /\ resp' = Resp(inflight[w].op, IF inflight[w].op = "create_review" THEN 201 ELSE 200)
    /\ UNCHANGED <<categories, deliveries, carts, addresses, orders, reviews, payments, notifications>>

----------------------------------------------------------------------------
(* The delivery handlers, one store call at a time.  inflight[w] holds the
   handler (op), its arguments and, after the lookup, whether a delivery of
   the order was found. *)

DeliveryRequest(pc, op, o, status, driver, found) ==
    [pc |-> pc, op |-> op, order_id |-> o, status |-> status,
     driver |-> driver, found |-> found]

(* update_delivery_status: orders_collection.find_one *)
UpdateDeliveryFindOrder(w, o, status) ==
    /\ inflight[w].pc = "idle"
    /\ UNCHANGED <<categories, deliveries, menu, carts, addresses, orders, reviews, payments, notifications>>
    /\ IF o \notin 1..Len(orders)
       THEN inflight' = inflight /\ resp' = Resp("update_delivery_status", 500)
       ELSE /\ inflight' = [inflight EXCEPT ![w] =
                   DeliveryRequest("find_delivery", "update_delivery_status",
                                   o, status, None, FALSE)]
            /\ resp' = resp

(* assign_driver: orders_collection.find_one *)
AssignDriverFindOrder(w, o, driver) ==
    /\ inflight[w].pc = "idle"
    /\ UNCHANGED <<categories, deliveries, menu, carts, addresses, orders, reviews, payments, notifications>>
    /\ IF o \notin 1..Len(orders)
       THEN inflight' = inflight /\ resp' = Resp("assign_driver", 404)
       ELSE /\ inflight' = [inflight EXCEPT ![w] =
                   DeliveryRequest("find_delivery", "assign_driver",
                                   o, "ASSIGNED", Some(driver), FALSE)]
            /\ resp' = resp

(* deliveries_collection.find_one({"order_id": order_id}) of either handler *)
DeliveryFindDelivery(w) ==
    /\ inflight[w].pc = "find_delivery"
    /\ inflight' = [inflight EXCEPT
           ![w].found = FindDelivery(deliveries, inflight[w].order_id) # 0,
           ![w].pc = "write_delivery"]
    /\ UNCHANGED <<categories, deliveries, menu, carts, addresses, orders, reviews, payments, notifications, resp>>

(* update_delivery_status: deliveries_collection.update_one or insert_one *)
UpdateDeliveryWrite(w) ==
    /\ inflight[w].pc = "write_delivery"
    /\ inflight[w].op = "update_delivery_status"
    /\ LET r == inflight[w]
           i == FindDelivery(deliveries, r.order_id)
       IN  deliveries' =
              IF r.found
              THEN [deliveries EXCEPT
                       ![i].status = r.status,
                       ![i].status_history = deliveries[i].status_history \cup {r.status}]
              ELSE Append(deliveries, NewDelivery(orders, r.order_id, r.status, None))
    /\ inflight' = [inflight EXCEPT ![w].pc = "mirror"]
    /\ UNCHANGED <<categories, menu, carts, addresses, orders, reviews, payments, notifications, resp>>

(* assign_driver: deliveries_collection.update_one of the driver fields, or
   insert_one of an ASSIGNED delivery; only the latter goes on to the order *)
AssignDriverWrite(w) ==
    /\ inflight[w].pc = "write_delivery"
    /\ inflight[w].op = "assign_driver"
    /\ LET r == inflight[w]
           i == FindDelivery(deliveries, r.order_id)
       IN  IF r.found
           THEN /\ deliveries' = [deliveries EXCEPT ![i].driver_id = r.driver]
                /\ inflight' = [inflight EXCEPT ![w] = Idle]
                /\ resp' = Resp("assign_driver", 200)
           ELSE /\ deliveries' = Append(deliveries,
                       NewDelivery(orders, r.order_id, "ASSIGNED", r.driver))
                /\ inflight' = [inflight EXCEPT ![w].pc = "mirror"]
                /\ resp' = resp
    /\ UNCHANGED <<categories, menu, carts, addresses, orders, reviews, payments, notifications>>

(* orders_collection.update_one of delivery_status, then the response *)
DeliveryMirror(w) ==
    /\ inflight[w].pc = "mirror"
    /\ orders' = MirrorDeliveryStatus(orders, inflight[w].order_id, inflight[w].status)
    /\ inflight' = [inflight EXCEPT ![w] = Idle]
    /\ resp' = Resp(inflight[w].op, 200)
    /\ UNCHANGED <<categories, deliveries, menu, carts, addresses, reviews, payments, notifications>>

----------------------------------------------------------------------------
(* The cart handlers, one store call at a time.  inflight[w] holds the
   handler (op), its arguments, what its reads returned (the price, the _id
   of the line it works on, the _id of the cart it inserted) and, after the
   re-read of the cart, the total it is about to store. *)

CartRequest(pc, op, u, m, id, q, price) ==
    [pc |-> pc, op |-> op, user |-> u, menu_item_id |-> m, item_id |-> id,
     quantity |-> q, price |-> price, cart_id |-> 0, total |-> 0]

(* _id of the first line for menu item m, 0 if none: "Check if item already
   exists in cart" *)
ExistingItemId(items, m) ==
    IF FindLineByMenuItem(items, m) = 0 THEN 0
    ELSE items[FindLineByMenuItem(items, m)]._id

(* get_user_cart: carts_collection.find_one({"user_id": u}) *)
GetUserCartFind(w, u) ==
    /\ inflight[w].pc = "idle"
    /\ UNCHANGED <<categories, deliveries, menu, carts, addresses, orders, reviews, payments, notifications>>
    /\ IF FindCartByUser(carts, u) # 0
       THEN inflight' = inflight /\ resp' = Resp("get_user_cart", 200)
       ELSE /\ inflight' = [inflight EXCEPT ![w] =
                   CartRequest("insert_cart", "get_user_cart", u, "", 0, 0, None)]
            /\ resp' = resp

(* add_item_to_cart: menu_items_collection.find_one and the availability
   check *)
AddItemFindItem(w, u, m, q) ==
    /\ inflight[w].pc = "idle"
    /\ UNCHANGED <<categories, deliveries, menu, carts, addresses, orders, reviews, payments, notifications>>
    /\ IF ~Exists(menu[m])
       THEN inflight' = inflight /\ resp' = Resp("add_item_to_cart", 404)
       ELSE IF ~IsAvailable(menu[m])
       THEN inflight' = inflight /\ resp' = Resp("add_item_to_cart", 400)
       ELSE /\ inflight' = [inflight EXCEPT ![w] =
                   CartRequest("find_cart", "add_item_to_cart", u, m, 0, q, menu[m].price)]
            /\ resp' = resp

(* add_item_to_cart: carts_collection.find_one({"user_id": u}) *)
AddItemFindCart(w) ==
    /\ inflight[w].pc = "find_cart"
    /\ LET r == inflight[w]
           c == FindCartByUser(carts, r.user)
       IN  inflight' =
              IF c = 0 THEN [inflight EXCEPT ![w].pc = "insert_cart"]
              ELSE [inflight EXCEPT
                       ![w].item_id = ExistingItemId(carts[c].items, r.menu_item_id),
                       ![w].pc = "write_line"]
    /\ UNCHANGED <<categories, deliveries, menu, carts, addresses, orders, reviews, payments, notifications, resp>>

(* "if not cart": carts_collection.insert_one(cart_data) *)
CartInsert(w) ==
    /\ inflight[w].pc = "insert_cart"
    /\ carts' = Append(carts, NewCart(inflight[w].user))
    /\ inflight' = [inflight EXCEPT ![w].cart_id = Len(carts) + 1,
                                    ![w].pc = "read_new_cart"]
    /\ UNCHANGED <<categories, deliveries, menu, addresses, orders, reviews, payments, notifications, resp>>

(* carts_collection.find_one({"_id": result.inserted_id}); get_user_cart
   answers with it *)
CartReadNew(w) ==
    /\ inflight[w].pc = "read_new_cart"
    /\ LET r == inflight[w]
       IN  IF r.op = "get_user_cart"
           THEN /\ inflight' = [inflight EXCEPT ![w] = Idle]
                /\ resp' = Resp("get_user_cart", 200)
           ELSE /\ inflight' = [inflight EXCEPT
                       ![w].item_id = ExistingItemId(carts[r.cart_id].items, r.menu_item_id),
                       ![w].pc = "write_line"]
                /\ resp' = resp
    /\ UNCHANGED <<categories, deliveries, menu, carts, addresses, orders, reviews, payments, notifications>>

(* add_item_to_cart: the $set of the existing line or the $push of a new one *)
AddItemWriteLine(w) ==
    /\ inflight[w].pc = "write_line"
    /\ inflight[w].op = "add_item_to_cart"
    /\ UNCHANGED <<categories, deliveries, menu, addresses, orders, reviews, payments, notifications>>
    /\ LET r == inflight[w]
       IN  IF r.price = None
           THEN (* menu_item["price"] raises KeyError *)
                /\ carts' = carts
                /\ inflight' = [inflight EXCEPT ![w] = Idle]
                /\ resp' = Resp("add_item_to_cart", 500)
           ELSE /\ carts' =
                      IF r.item_id # 0
                      THEN SetLineOnAdd(carts, r.user, r.item_id, r.quantity, Val(r.price))
                      ELSE PushLine(carts, r.user,
                               [_id |-> FreshLineId(carts), menu_item_id |-> r.menu_item_id,
                                price |-> Val(r.price), quantity |-> r.quantity,
                                subtotal |-> Val(r.price) * r.quantity])
                /\ inflight' = [inflight EXCEPT ![w].pc = "read_total"]
                /\ resp' = resp

(* update_cart_item: carts_collection.find_one and the search of the line *)
UpdateItemFind(w, u, item_id, q) ==
    /\ inflight[w].pc = "idle"
    /\ UNCHANGED <<categories, deliveries, menu, carts, addresses, orders, reviews, payments, notifications>>
    /\ LET c == FindCartByUser(carts, u)
       IN  IF c = 0 \/ FindLineById(carts[c].items, item_id) = 0
           THEN inflight' = inflight /\ resp' = Resp("update_cart_item", 404)
           ELSE /\ inflight' = [inflight EXCEPT ![w] =
                       CartRequest("write_line", "update_cart_item", u, "", item_id, q,
                           Some(carts[c].items[FindLineById(carts[c].items, item_id)].price))]
                /\ resp' = resp

(* update_cart_item: the $set of quantity and subtotal *)
UpdateItemWriteLine(w) ==
    /\ inflight[w].pc = "write_line"
    /\ inflight[w].op = "update_cart_item"
    /\ LET r == inflight[w]
       IN  carts' = SetLineOnUpdate(carts, r.user, r.item_id, r.quantity,
                                    Val(r.price) * r.quantity)
    /\ inflight' = [inflight EXCEPT ![w].pc = "read_total"]
    /\ UNCHANGED <<categories, deliveries, menu, addresses, orders, reviews, payments, notifications, resp>>

(* remove_cart_item: carts_collection.find_one and the search of the line *)
RemoveItemFind(w, u, item_id) ==
    /\ inflight[w].pc = "idle"
    /\ UNCHANGED <<categories, deliveries, menu, carts, addresses, orders, reviews, payments, notifications>>
    /\ LET c == FindCartByUser(carts, u)
       IN  IF c = 0 \/ FindLineById(carts[c].items, item_id) = 0
           THEN inflight' = inflight /\ resp' = Resp("remove_cart_item", 404)
           ELSE /\ inflight' = [inflight EXCEPT ![w] =
                       CartRequest("write_line", "remove_cart_item", u, "", item_id, 0, None)]
                /\ resp' = resp

(* remove_cart_item: the $pull *)
RemoveItemWriteLine(w) ==
    /\ inflight[w].pc = "write_line"
    /\ inflight[w].op = "remove_cart_item"
    /\ carts' = PullLine(carts, inflight[w].user, inflight[w].item_id)
    /\ inflight' = [inflight EXCEPT ![w].pc = "read_total"]
    /\ UNCHANGED <<categories, deliveries, menu, addresses, orders, reviews, payments, notifications, resp>>

(* "Get updated cart" and "Calculate total" of the three mutations *)
CartReadTotal(w) ==
    /\ inflight[w].pc = "read_total"
    /\ inflight' = [inflight EXCEPT
           ![w].total = SumSubtotals(carts[FindCartByUser(carts, inflight[w].user)].items),
           ![w].pc = "set_total"]
    /\ UNCHANGED <<categories, deliveries, menu, carts, addresses, orders, reviews, payments, notifications, resp>>

(* "Update total in database", then the response *)
CartSetTotal(w) ==
    /\ inflight[w].pc = "set_total"
    /\ carts' = SetTotal(carts, inflight[w].user, inflight[w].total)
    /\ inflight' = [inflight EXCEPT ![w] = Idle]
    /\ resp' = Resp(inflight[w].op, 200)
    /\ UNCHANGED <<categories, deliveries, menu, addresses, orders, reviews, payments, notifications>>

----------------------------------------------------------------------------
(* The handlers that only read one entity of the caller.  The response
   carries the caller and the document returned. *)

(* get_address *)
GetAddress(u, a) ==
    /\ UNCHANGED <<categories, deliveries, menu, carts, addresses, orders, reviews, payments, notifications, inflight>>
    /\ resp' = IF ~FindAddress(addresses, a, u)
               THEN RespArg("get_address", 404, <<u>>)
               ELSE RespArg("get_address", 200, <<u, addresses[a]>>)

(* get_order_detail *)
GetOrderDetail(u, o) ==
    /\ UNCHANGED <<categories, deliveries, menu, carts, addresses, orders, reviews, payments, notifications, inflight>>
    /\ resp' = IF ~FindOrder(orders, o, u)
               THEN RespArg("get_order_detail", 404, <<u>>)
               ELSE RespArg("get_order_detail", 200, <<u, orders[o]>>)

(* get_delivery_status: the delivery of the caller's order, or NOT_STARTED *)
GetDeliveryStatus(u, o) ==
    /\ UNCHANGED <<categories, deliveries, menu, carts, addresses, orders, reviews, payments, notifications, inflight>>
    /\ resp' = IF ~FindOrder(orders, o, u)
               THEN RespArg("get_delivery_status", 404, <<u>>)
               ELSE IF FindDelivery(deliveries, o) = 0
               THEN RespArg("get_delivery_status", 200,
                            <<u, [order_id |-> o, user_id |-> u, status |-> "NOT_STARTED"]>>)
               ELSE RespArg("get_delivery_status", 200,
                            <<u, deliveries[FindDelivery(deliveries, o)]>>)

----------------------------------------------------------------------------
(* cancel_order, one store call at a time *)

(* orders_collection.find_one({"_id": o, "user_id": u}) and "Check if order
   can be cancelled" *)
CancelOrderFind(w, u, o) ==
    /\ inflight[w].pc = "idle"
    /\ UNCHANGED <<categories, deliveries, menu, carts, addresses, orders, reviews, payments, notifications>>
    /\ IF ~FindOrder(orders, o, u)
       THEN inflight' = inflight /\ resp' = Resp("cancel_order", 404)
       ELSE IF ~CanCancel(orders[o].status)
       THEN inflight' = inflight /\ resp' = Resp("cancel_order", 400)
       ELSE /\ inflight' = [inflight EXCEPT ![w] =
                   [pc |-> "set_cancelled", op |-> "cancel_order", user |-> u, order_id |-> o]]
            /\ resp' = resp

(* orders_collection.update_one({"_id": o}, $set status CANCELLED), then the
   response *)
CancelOrderSet(w) ==
    /\ inflight[w].pc = "set_cancelled"
    /\ orders' = [orders EXCEPT ![inflight[w].order_id].status = "CANCELLED"]
    /\ inflight' = [inflight EXCEPT ![w] = Idle]
    /\ resp' = Resp("cancel_order", 200)
    /\ UNCHANGED <<categories, deliveries, menu, carts, addresses, reviews, payments, notifications>>

----------------------------------------------------------------------------
(* initialize_payment, one store call at a time *)

(* orders_collection.find_one, the PAID check and the gateway's answer *)
InitializePaymentFind(w, u, o, gw) ==
    /\ inflight[w].pc = "idle"
    /\ UNCHANGED <<categories, deliveries, menu, carts, addresses, orders, reviews, payments, notifications>>
    /\ IF ~FindOrder(orders, o, u)
       THEN inflight' = inflight /\ resp' = RespArg("initialize_payment", 404, <<u, o, gw>>)
       ELSE IF AlreadyPaid(orders, o)
       THEN inflight' = inflight /\ resp' = RespArg("initialize_payment", 400, <<u, o, gw>>)
       ELSE IF GatewayFailed(gw)
       THEN inflight' = inflight /\ resp' = RespArg("initialize_payment", 500, <<u, o, gw>>)
       ELSE /\ inflight' = [inflight EXCEPT ![w] =
                   [pc |-> "insert_payment", op |-> "initialize_payment", user |-> u,
                    order_id |-> o, amount |-> orders[o].total_amount, reference |-> 0]]
            /\ resp' = resp

(* payments_collection.insert_one(payment_data) *)
InitializePaymentInsert(w) ==
    /\ inflight[w].pc = "insert_payment"
    /\ Len(payments) < MaxPayments
    /\ LET r == inflight[w]
           reference == Len(payments) + 1
       IN  /\ payments' = Append(payments,
                  [order_id |-> r.order_id, user_id |-> r.user, amount |-> r.amount,
                   reference |-> reference, status |-> "PENDING",
                   transaction_data |-> None])
           /\ inflight' = [inflight EXCEPT ![w].reference = reference,
                                           ![w].pc = "set_reference"]
    /\ UNCHANGED <<categories, deliveries, menu, carts, addresses, orders, reviews, notifications, resp>>

(* orders_collection.update_one({"_id": o}, $set payment_reference,
   payment_status PENDING), then the response and the notification task *)
InitializePaymentSetReference(w) ==
    /\ inflight[w].pc = "set_reference"
    /\ Len(notifications) < MaxNotifications
    /\ LET r == inflight[w]
       IN  /\ orders' = [orders EXCEPT ![r.order_id].payment_reference = Some(r.reference),
                                       ![r.order_id].payment_status = "PENDING"]
           /\ notifications' = Notify(notifications, r.user, r.order_id, "PENDING", r.reference)
           /\ resp' = RespArg("initialize_payment", 200, <<r.user, r.order_id, "ok">>)
    /\ inflight' = [inflight EXCEPT ![w] = Idle]
    /\ UNCHANGED <<categories, deliveries, menu, carts, addresses, reviews, payments>>

----------------------------------------------------------------------------
(* The store after deployment: every collection is empty *)

Init ==
    /\ menu = [m \in MenuIds |-> NoItem]
    /\ categories = <<>>
    /\ deliveries = <<>>
    /\ carts = <<>>
    /\ addresses = <<>>
    /\ orders = <<>>
    /\ reviews = <<>>
    /\ payments = <<>>
    /\ notifications = <<>>
    /\ inflight = [w \in Workers |-> Idle]
    /\ resp = Resp("none", 0)

LineIds == 1..(Cardinality(Users) * Cardinality(MenuIds))
CartIds == 1..Cardinality(Users)
AddressIds == 1..MaxAddresses
OrderIds == 1..MaxOrders

(* Cart handlers and the catalog changes they depend on, one request at a
   time *)
NextCart ==
    \/ \E m \in MenuIds, p \in Prices : CreateMenuItem(m, Some(p), None, {})
    \/ \E m \in MenuIds, p \in Prices : UpdateMenuItem(m, Some(p), None, None)
    \/ \E m \in MenuIds, av \in BOOLEAN : UpdateMenuItem(m, None, Some(av), None)
    \/ \E m \in MenuIds : DeleteMenuItem(m)
    \/ \E u \in Shoppers : GetUserCart(u)
    \/ \E u \in Shoppers, m \in MenuIds, q \in Quantities : AddItemToCart(u, m, q)
    \/ \E u \in Shoppers, id \in LineIds, q \in Quantities : UpdateCartItem(u, id, q)
    \/ \E u \in Shoppers, id \in LineIds : RemoveCartItem(u, id)
    \/ \E u \in Shoppers : ClearCart(u)

SpecCart == Init /\ [][NextCart]_vars

(* Order creation from the cart of one shopper, with the price of the one
   item on the menu changing in between; the other user is there to ask for
   what is not theirs *)
NextOrder ==
    \/ \E p \in Prices : CreateMenuItem("m1", Some(p), None, {})
    \/ \E p \in Prices : UpdateMenuItem("m1", Some(p), None, None)
    \/ \E u \in Shoppers, q \in Quantities : AddItemToCart(u, "m1", q)
    \/ \E u \in Users : CreateAddress(u, FALSE)
    \/ \E u \in Users, c \in CartIds, a \in AddressIds : CreateOrder(u, c, a)

SpecOrder == Init /\ [][NextOrder]_vars

(* The order status machine: orders of one shopper for one item; the other
   user is there to ask for what is not theirs *)
NextStatus ==
    \/ CreateMenuItem("m1", Some(5), None, {})
    \/ \E u \in Shoppers : AddItemToCart(u, "m1", 1)
    \/ \E u \in Shoppers : CreateAddress(u, FALSE)
    \/ \E u \in Shoppers, c \in CartIds, a \in AddressIds : CreateOrder(u, c, a)
    \/ \E u \in Users, o \in OrderIds : CancelOrder(u, o)
    \/ \E o \in OrderIds, st \in OrderStatuses : UpdateOrderStatus(o, st)

SpecStatus == Init /\ [][NextStatus]_vars

(* create_order served store call by store call by two workers, next to the
   requests that fill the cart *)
NextOrderSteps ==
    \/ CreateMenuItem("m1", Some(5), None, {})
    \/ \E u \in Shoppers : AddItemToCart(u, "m1", 1)
    \/ \E u \in Shoppers : CreateAddress(u, FALSE)
    \/ \E w \in Workers, u \in Shoppers, c \in CartIds, a \in AddressIds :
          CreateOrderFindCart(w, u, c, a)
    \/ \E w \in Workers : CreateOrderFindAddress(w)
    \/ \E w \in Workers : CreateOrderFindItem(w)
    \/ \E w \in Workers : CreateOrderInsert(w)
    \/ \E w \in Workers : CreateOrderClear(w)
    \/ \E w \in Workers : RequestStops(w)

SpecOrderSteps == Init /\ [][NextOrderSteps]_vars

ReviewIds == 1..MaxReviews

(* Reviews of the menu items by both users, one request at a time *)
NextReview ==
    \/ \E m \in MenuIds : CreateMenuItem(m, Some(5), None, {})
    \/ \E u \in Users, m \in MenuIds, r \in Ratings : CreateReview(u, m, r)
    \/ \E u \in Users, id \in ReviewIds, upd \in RatingUpdates : UpdateReview(u, id, upd)
    \/ \E u \in Users, id \in ReviewIds : DeleteReview(u, id)

SpecReview == Init /\ [][NextReview]_vars

(* The address book of both users, one request at a time *)
NextAddress ==
    \/ \E u \in Users, d \in BOOLEAN : CreateAddress(u, d)
    \/ \E u \in Users, a \in AddressIds, upd \in IsDefaultUpdates : UpdateAddress(u, a, upd)
    \/ \E u \in Users, a \in AddressIds : DeleteAddress(u, a)

SpecAddress == Init /\ [][NextAddress]_vars

RefIds == 1..MaxPayments

(* Payment of the orders of one shopper who keeps one address; the other
   user is there to verify what is not theirs *)
NextPayment ==
    \/ CreateMenuItem("m1", Some(5), None, {})
    \/ \E u \in Shoppers : AddItemToCart(u, "m1", 1)
    \/ \E u \in Shoppers : addresses = <<>> /\ CreateAddress(u, FALSE)
    \/ \E u \in Shoppers, c \in CartIds, a \in AddressIds : CreateOrder(u, c, a)
    \/ \E u \in Shoppers, o \in OrderIds, gw \in InitAnswers : InitializePayment(u, o, gw)
    \/ \E u \in Users, ref \in RefIds, gw \in VerifyAnswers : VerifyPayment(u, ref, gw)
    \/ \E ref \in RefIds, gw \in VerifyAnswers : PaystackCallback(ref, gw)

SpecPayment == Init /\ [][NextPayment]_vars

(* The one order of one shopper through its whole life, while the catalog
   price and the cart keep changing *)
NextOrderLife ==
    \/ CreateMenuItem("m1", Some(5), None, {})
    \/ UpdateMenuItem("m1", Some(10), None, None)
    \/ \E u \in Shoppers : AddItemToCart(u, "m1", 1)
    \/ \E u \in Shoppers : addresses = <<>> /\ CreateAddress(u, FALSE)
    \/ \E u \in Shoppers, c \in CartIds, a \in AddressIds :
          orders = <<>> /\ CreateOrder(u, c, a)
    \/ \E u \in Shoppers, o \in OrderIds : CancelOrder(u, o)
    \/ \E o \in OrderIds : UpdateOrderStatus(o, "DELIVERED")
    \/ \E u \in Shoppers, o \in OrderIds : InitializePayment(u, o, "ok")
    \/ \E u \in Shoppers, ref \in RefIds : VerifyPayment(u, ref, "success")
    \/ \E ref \in RefIds : PaystackCallback(ref, "failed")
    \/ \E o \in OrderIds : UpdateDeliveryStatus(o, "DELIVERED")
    \/ \E o \in OrderIds, driver \in Drivers : AssignDriver(o, driver)

SpecOrderLife == Init /\ [][NextOrderLife]_vars

(* Orders of one shopper over carts of two items at either price *)
NextTotals ==
    \/ \E m \in MenuIds, p \in Prices : CreateMenuItem(m, Some(p), None, {})
    \/ \E u \in Shoppers, m \in MenuIds, q \in Quantities : AddItemToCart(u, m, q)
    \/ \E u \in Shoppers : addresses = <<>> /\ CreateAddress(u, FALSE)
    \/ \E u \in Shoppers, c \in CartIds, a \in AddressIds : CreateOrder(u, c, a)

SpecTotals == Init /\ [][NextTotals]_vars

(* Orders asked for by either user, over carts and addresses that may be
   absent, empty or someone else's and an item that may be withdrawn *)
NextPreconditions ==
    \/ CreateMenuItem("m1", Some(5), None, {})
    \/ \E avail \in BOOLEAN : UpdateMenuItem("m1", None, Some(avail), None)
    \/ DeleteMenuItem("m1")
    \/ \E u \in Shoppers : GetUserCart(u)
    \/ \E u \in Shoppers : AddItemToCart(u, "m1", 1)
    \/ \E u \in Users : Len(addresses) < 2 /\ CreateAddress(u, FALSE)
    \/ \E u \in Users, c \in CartIds, a \in AddressIds : CreateOrder(u, c, a)

SpecPreconditions == Init /\ [][NextPreconditions]_vars

(* Review requests on one menu item served by two workers whose store calls
   interleave; every rating sent is a number *)
NextReviewSteps ==
    \/ CreateMenuItem("m1", Some(5), None, {})
    \/ \E w \in Workers, u \in Users, r \in Ratings : CreateReviewFindItem(w, u, "m1", r)
    \/ \E w \in Workers : CreateReviewFindExisting(w)
    \/ \E w \in Workers : CreateReviewInsert(w)
    \/ \E w \in Workers, u \in Users, id \in ReviewIds, r \in Ratings :
          UpdateReviewFind(w, u, id, Some(Some(r)))
    \/ \E w \in Workers : UpdateReviewSet(w)
    \/ \E w \in Workers, u \in Users, id \in ReviewIds : DeleteReviewFind(w, u, id)
    \/ \E w \in Workers : DeleteReviewDelete(w)
    \/ \E w \in Workers : ReviewFindAll(w)
    \/ \E w \in Workers : ReviewSetAggregates(w)

SpecReviewSteps == Init /\ [][NextReviewSteps]_vars

CategoryIds == 1..MaxCategories

(* The catalog: categories and the menu items filed under them *)
NextCatalog ==
    \/ \E name \in CategoryNames : CreateCategory(name)
    \/ \E c \in CategoryIds : DeleteCategory(c)
    \/ \E m \in MenuIds, cs \in SUBSET CategoryIds : CreateMenuItem(m, Some(5), None, cs)
    \/ \E m \in MenuIds, cs \in SUBSET CategoryIds : UpdateMenuItem(m, None, None, Some(cs))
    \/ \E m \in MenuIds : DeleteMenuItem(m)

SpecCatalog == Init /\ [][NextCatalog]_vars

(* Two admin requests on the delivery of one order, interleaved at the
   store calls; two of the four statuses are enough to tell the requests
   apart *)
NextDeliverySteps ==
    \/ CreateMenuItem("m1", Some(5), None, {})
    \/ \E u \in Shoppers : AddItemToCart(u, "m1", 1)
    \/ \E u \in Shoppers : addresses = <<>> /\ CreateAddress(u, FALSE)
    \/ \E u \in Shoppers, c \in CartIds, a \in AddressIds :
          orders = <<>> /\ CreateOrder(u, c, a)
    \/ \E w \in Workers, o \in OrderIds, s \in {"PREPARING", "EN_ROUTE"} :
          UpdateDeliveryFindOrder(w, o, s)
    \/ \E w \in Workers, o \in OrderIds, driver \in Drivers :
          AssignDriverFindOrder(w, o, driver)
    \/ \E w \in Workers : DeliveryFindDelivery(w)
    \/ \E w \in Workers : UpdateDeliveryWrite(w)
    \/ \E w \in Workers : AssignDriverWrite(w)
    \/ \E w \in Workers : DeliveryMirror(w)

SpecDeliverySteps == Init /\ [][NextDeliverySteps]_vars

(* Two requests on the cart of one shopper, interleaved at the store calls,
   with one item on the menu *)
NextCartSteps ==
    \/ CreateMenuItem("m1", Some(5), None, {})
    \/ \E w \in Workers, u \in Shoppers : GetUserCartFind(w, u)
    \/ \E w \in Workers, u \in Shoppers, q \in Quantities :
          AddItemFindItem(w, u, "m1", q)
    \/ \E w \in Workers : AddItemFindCart(w)
    \/ \E w \in Workers : CartInsert(w)
    \/ \E w \in Workers : CartReadNew(w)
    \/ \E w \in Workers : AddItemWriteLine(w)
    \/ \E w \in Workers, u \in Shoppers, id \in LineIds, q \in Quantities :
          UpdateItemFind(w, u, id, q)
    \/ \E w \in Workers : UpdateItemWriteLine(w)
    \/ \E w \in Workers, u \in Shoppers, id \in LineIds : RemoveItemFind(w, u, id)
    \/ \E w \in Workers : RemoveItemWriteLine(w)
    \/ \E w \in Workers : CartReadTotal(w)
    \/ \E w \in Workers : CartSetTotal(w)

SpecCartSteps == Init /\ [][NextCartSteps]_vars

(* The shopper has a cart of their own and nothing else; the address, the
   one order, its delivery and its payment belong to the second user, who
   has a cart as well.  The shopper's requests name every id there is *)
NextOwnership ==
    \/ CreateMenuItem("m1", Some(5), None, {})
    \/ \E u \in Users : AddItemToCart(u, "m1", 1)
    \/ \E u \in Shoppers, id \in LineIds : UpdateCartItem(u, id, 2)
    \/ \E u \in Shoppers, id \in LineIds : RemoveCartItem(u, id)
    \/ \E u \in Users \ Shoppers : addresses = <<>> /\ CreateAddress(u, FALSE)
    \/ \E u \in Shoppers, a \in AddressIds : GetAddress(u, a)
    \/ \E u \in Shoppers, a \in AddressIds : UpdateAddress(u, a, Some(Some(FALSE)))
    \/ \E u \in Shoppers, a \in AddressIds : DeleteAddress(u, a)
    \/ \E u \in Users \ Shoppers, c \in CartIds, a \in AddressIds :
          orders = <<>> /\ CreateOrder(u, c, a)
    \/ \E u \in Shoppers, c \in CartIds, a \in AddressIds : CreateOrder(u, c, a)
    \/ \E u \in Shoppers, o \in OrderIds : GetOrderDetail(u, o)
    \/ \E u \in Shoppers, o \in OrderIds : CancelOrder(u, o)
    \/ \E u \in Shoppers, o \in OrderIds : GetDeliveryStatus(u, o)
    \/ \E o \in OrderIds : UpdateDeliveryStatus(o, "PREPARING")
    \/ \E u \in Users \ Shoppers, o \in OrderIds :
          payments = <<>> /\ InitializePayment(u, o, "ok")
    \/ \E u \in Shoppers, o \in OrderIds : InitializePayment(u, o, "ok")
    \/ \E u \in Shoppers, ref \in RefIds : VerifyPayment(u, ref, "success")

SpecOwnership == Init /\ [][NextOwnership]_vars

(* Cancellations of the one order of a shopper, one store call at a time,
   while an admin sets its status *)
NextCancelSteps ==
    \/ CreateMenuItem("m1", Some(5), None, {})
    \/ \E u \in Shoppers : AddItemToCart(u, "m1", 1)
    \/ \E u \in Shoppers : addresses = <<>> /\ CreateAddress(u, FALSE)
    \/ \E u \in Shoppers, c \in CartIds, a \in AddressIds :
          orders = <<>> /\ CreateOrder(u, c, a)
    \/ \E w \in Workers, u \in Users, o \in OrderIds : CancelOrderFind(w, u, o)
    \/ \E w \in Workers : CancelOrderSet(w)
    \/ \E o \in OrderIds, st \in OrderStatuses : UpdateOrderStatus(o, st)

SpecCancelSteps == Init /\ [][NextCancelSteps]_vars

(* Payments of the one order of a shopper: initialize_payment one store
   call at a time, verifications in between *)
NextPaymentSteps ==
    \/ CreateMenuItem("m1", Some(5), None, {})
    \/ \E u \in Shoppers : AddItemToCart(u, "m1", 1)
    \/ \E u \in Shoppers : addresses = <<>> /\ CreateAddress(u, FALSE)
    \/ \E u \in Shoppers, c \in CartIds, a \in AddressIds :
          orders = <<>> /\ CreateOrder(u, c, a)
    \/ \E w \in Workers, u \in Shoppers, o \in OrderIds, gw \in InitAnswers :
          InitializePaymentFind(w, u, o, gw)
    \/ \E w \in Workers : InitializePaymentInsert(w)
    \/ \E w \in Workers : InitializePaymentSetReference(w)
    \/ \E u \in Shoppers, ref \in RefIds : VerifyPayment(u, ref, "success")

SpecPaymentSteps == Init /\ [][NextPaymentSteps]_vars

(* The cart and the order of one shopper with any integer the request
   schemas accept as quantity *)
NextQuantity ==
    \/ \E m \in MenuIds : CreateMenuItem(m, Some(5), None, {})
    \/ \E u \in Shoppers, m \in MenuIds, q \in RequestQuantities : AddItemToCart(u, m, q)
    \/ \E u \in Shoppers, id \in LineIds, q \in RequestQuantities : UpdateCartItem(u, id, q)
    \/ \E u \in Shoppers : addresses = <<>> /\ CreateAddress(u, FALSE)
    \/ \E u \in Shoppers, c \in CartIds, a \in AddressIds : CreateOrder(u, c, a)

SpecQuantity == Init /\ [][NextQuantity]_vars

----------------------------------------------------------------------------
(* Properties *)

CartMutations == {"add_item_to_cart", "update_cart_item", "remove_cart_item", "clear_cart"}

(* C1: after any sequence of cart mutations run one at a time, the stored
   total of every cart is the sum of the subtotals of its stored lines. *)
C1_TotalIsSumOfSubtotals ==
    \A c \in 1..Len(carts) : carts[c].total = SumSubtotals(carts[c].items)

(* a cart of two lines right after a mutation changed one of them *)
C1_Witness ==
    /\ resp = Resp("update_cart_item", 200)
    /\ \E c \in 1..Len(carts) : Len(carts[c].items) = 2 /\ carts[c].total > 0

(* C2: the step in which create_order succeeds stores an order with one line
   per cart line, in order, whose price is the menu item's price at that
   moment, whose quantity is the cart line's and whose subtotal is their
   product, whatever price the cart line carries; order.subtotal is the sum
   of the line subtotals. *)
C2_OrderPricedFromCatalog ==
    [][(resp' = Resp("create_order", 201) /\ Len(orders') = Len(orders) + 1) =>
        LET o == orders'[Len(orders')]
        IN  \E c \in 1..Len(carts) :
              /\ carts[c].items # <<>> /\ carts'[c].items = <<>>
              /\ Len(o.items) = Len(carts[c].items)
              /\ \A k \in 1..Len(o.items) :
                    LET line == carts[c].items[k]
                    IN  /\ o.items[k].menu_item_id = line.menu_item_id
                        /\ o.items[k].price = Val(menu[line.menu_item_id].price)
                        /\ o.items[k].quantity = line.quantity
                        /\ o.items[k].subtotal =
                              Val(menu[line.menu_item_id].price) * line.quantity
              /\ o.subtotal = SumSubtotals(o.items)]_vars

(* an order was just created whose subtotal is not the total the cart had
   accumulated at its own, older, prices *)
C2_Witness ==
    /\ resp = Resp("create_order", 201)
    /\ \E c \in 1..Len(carts) :
          /\ carts[c].user_id = orders[Len(orders)].user_id
          /\ carts[c].total # orders[Len(orders)].subtotal

(* C3: after create_order succeeds the cart of the order's user has no items
   and a stored total of 0. *)
C3_CartEmptyWithTotalZero ==
    resp = Resp("create_order", 201) =>
        \A c \in 1..Len(carts) :
            carts[c].user_id = orders[Len(orders)].user_id =>
                carts[c].items = <<>> /\ carts[c].total = 0

(* C4: every step that stores a new order also leaves the carts of the
   order's user without items: storing the order and clearing the cart are
   one transition. *)
C4_OrderAndClearAreOneStep ==
    [][Len(orders') = Len(orders) + 1 =>
        \A c \in 1..Len(carts') :
            carts'[c].user_id = orders'[Len(orders')].user_id =>
                carts'[c].items = <<>>]_vars

(* C5: cancel_order by the owner sets CANCELLED exactly from PENDING or
   CONFIRMED, and from every other status answers 400 and leaves the status
   as it was. *)
C5_CancelOnlyFromPendingOrConfirmed ==
    [][\A u \in Users, o \in OrderIds :
          (CancelOrder(u, o) /\ FindOrder(orders, o, u)) =>
              IF orders[o].status \in {"PENDING", "CONFIRMED"}
              THEN resp'.code = 200 /\ orders'[o].status = "CANCELLED"
              ELSE resp'.code = 400 /\ orders'[o].status = orders[o].status]_vars

(* the owner was refused on an order that is already on its way *)
C5_Witness ==
    /\ resp = Resp("cancel_order", 400)
    /\ Len(orders) = 1 /\ orders[1].status = "EN_ROUTE"

(* C6: after any sequence of review operations on a menu item, run one at a
   time, its avg_rating is the sum of the stored ratings over their number
   and its review_count is that number; both are 0 when no review remains.
   (The mean is compared only while every stored rating is a number.) *)
C6_RatingIsMeanOfStoredReviews ==
    \A m \in MenuIds :
        (Exists(menu[m]) /\ (menu[m].avg_rating # None \/ ItemReviews(reviews, m) # {})) =>
            /\ menu[m].review_count = Some(Cardinality(ItemReviews(reviews, m)))
            /\ (~SumRaises(reviews, m) => menu[m].avg_rating = Some(AvgRating(reviews, m)))

AtMostOneReviewPerPair ==
    \A i, j \in 1..Len(reviews) :
        (/\ reviews[i].live /\ reviews[j].live
         /\ reviews[i].user_id = reviews[j].user_id
         /\ reviews[i].menu_item_id = reviews[j].menu_item_id) => i = j

(* C7: no step leaves a user with two stored reviews of one menu item, and
   create_review for a pair that has a stored review answers 400, stores
   nothing and leaves the item's avg_rating and review_count as they were. *)
C7_OneReviewPerUserAndItem ==
    [][/\ AtMostOneReviewPerPair'
       /\ \A u \in Users, m \in MenuIds, r \in Ratings :
             (CreateReview(u, m, r) /\ ExistingReview(reviews, u, m)) =>
                 /\ resp' = Resp("create_review", 400)
                 /\ reviews' = reviews
                 /\ menu'[m].avg_rating = menu[m].avg_rating
                 /\ menu'[m].review_count = menu[m].review_count]_vars

(* a second review of the same item by the same user was just refused *)
C7_Witness ==
    /\ resp = Resp("create_review", 400)
    /\ \E i \in 1..Len(reviews) : reviews[i].live

Defaults(as, u) == {i \in UserAddresses(as, u) : IsDefault(as[i])}

(* C8: whenever a user has at least one address, exactly one of them has
   is_default = true. *)
C8_ExactlyOneDefault ==
    \A u \in Users :
        UserAddresses(addresses, u) # {} => Cardinality(Defaults(addresses, u)) = 1

(* C9: the first address of a user is stored as default whatever was asked;
   after create_address or update_address with is_default = true that
   address is the user's only default; after delete_address of the default
   address while others remain, exactly one remaining address is default. *)
C9_DefaultMaintainedPerOperation ==
    [][/\ \A u \in Users, d \in BOOLEAN :
             CreateAddress(u, d) =>
                 /\ UserAddresses(addresses, u) = {} => IsDefault(addresses'[Len(addresses')])
                 /\ d => Defaults(addresses', u) = {Len(addresses')}
       /\ \A u \in Users, a \in AddressIds :
             (UpdateAddress(u, a, Some(Some(TRUE))) /\ FindAddress(addresses, a, u)) =>
                 Defaults(addresses', u) = {a}
       /\ \A u \in Users, a \in AddressIds :
             (/\ DeleteAddress(u, a) /\ FindAddress(addresses, a, u)
              /\ IsDefault(addresses[a]) /\ UserAddresses(addresses, u) # {a}) =>
                 /\ a \notin UserAddresses(addresses', u)
                 /\ Cardinality(Defaults(addresses', u)) = 1]_vars

(* the default address of a user who had three was just deleted, and one of
   the two that remain is the default now *)
C9_Witness ==
    /\ resp = Resp("delete_address", 200)
    /\ \E u \in Users :
          /\ Cardinality(UserAddresses(addresses, u)) = 2
          /\ Cardinality(Defaults(addresses, u)) = 1
          /\ \E a \in 1..Len(addresses) : ~addresses[a].live

(* C10: verify_payment is idempotent.  No verification changes the number of
   payment records or of orders; and when verify_payment is invoked for a
   reference right after a verify_payment for the same reference by the same
   user, the gateway giving the same answer, the status of the payment record
   of that reference and the payment_status of every order are after the
   second call what they were after the first. *)
C10_VerifyPaymentIsIdempotent ==
    [][resp'.op = "verify_payment" =>
          LET u == resp'.arg[1]
              ref == resp'.arg[2]
              gw == resp'.arg[3]
          IN  VerifyPayment(u, ref, gw) =>
                  /\ Len(payments') = Len(payments)
                  /\ Len(orders') = Len(orders)
                  /\ (resp.op = "verify_payment" /\ resp.arg = <<u, ref, gw>>) =>
                        /\ \A i \in 1..Len(payments) :
                              payments[i].reference = ref =>
                                  payments'[i].status = payments[i].status
                        /\ \A o \in 1..Len(orders) :
                              orders'[o].payment_status = orders[o].payment_status]_vars

(* a second successful verification of a reference has answered: two
   notifications of the same verified status exist for the reference, the
   payment record and its order carry that status *)
C10_Witness ==
    /\ resp.op = "verify_payment"
    /\ resp.code = 200
    /\ LET ref == resp.arg[2]
           st == VerifiedStatus(resp.arg[3])
           p == FindPayment(payments, ref)
       IN  /\ payments[p].status = st
           /\ orders[payments[p].order_id].payment_status = st
           /\ Len(payments) = 1
           /\ \E i, j \in 1..Len(notifications) :
                 /\ i < j
                 /\ notifications[i].reference = ref
                 /\ notifications[j].reference = ref
                 /\ notifications[i].payment_status = st
                 /\ notifications[j].payment_status = st

(* C11: when verify_payment or paystack_callback completes for a reference
   with a gateway result, the payment record of that reference and the order
   that payment belongs to (payment.order_id) both carry PAID if the result
   is success and FAILED otherwise, whatever initiations came before. *)
C11_VerificationPersistsOnBothRecords ==
    [][resp'.op \in {"verify_payment", "paystack_callback"} =>
          LET arg == resp'.arg
              ref == arg[Len(arg) - 1]
              gw == arg[Len(arg)]
              p == FindPayment(payments, ref)
          IN  (/\ \/ resp'.op = "verify_payment" /\ VerifyPayment(arg[1], ref, gw)
                  \/ resp'.op = "paystack_callback" /\ PaystackCallback(ref, gw)
               /\ resp'.code = 200
               /\ ~GatewayFailed(gw)
               /\ p # 0) =>
                  /\ payments'[p].status = VerifiedStatus(gw)
                  /\ orders'[payments'[p].order_id].payment_status = VerifiedStatus(gw)]_vars

(* C12: initialize_payment by the owner of an order whose payment_status is
   PAID answers 400, creates no payment record, leaves the order as it is and
   emits no notification. *)
C12_PaidOrderIsNotReinitialized ==
    [][resp'.op = "initialize_payment" =>
          LET u == resp'.arg[1]
              o == resp'.arg[2]
              gw == resp'.arg[3]
          IN  (/\ InitializePayment(u, o, gw)
               /\ FindOrder(orders, o, u)
               /\ orders[o].payment_status = "PAID") =>
                  /\ resp'.code = 400
                  /\ payments' = payments
                  /\ orders' = orders
                  /\ notifications' = notifications]_vars

(* an initiation on a paid order was refused *)
C12_Witness ==
    /\ resp.op = "initialize_payment"
    /\ resp.code = 400
    /\ orders[resp.arg[2]].payment_status = "PAID"
    /\ orders[resp.arg[2]].user_id = resp.arg[1]

(* C16: for every reference that has a payment record and every answer of the
   gateway, paystack_callback and verify_payment called by the payment's
   owner leave the same payment records and the same orders and schedule the
   same notification (same user, order, status and reference), or none. *)
C16_CallbackAndVerifyReconcileAlike ==
    \A ref \in RefIds, gw \in VerifyAnswers :
        FindPayment(payments, ref) # 0 =>
            LET owner == payments[FindPayment(payments, ref)].user_id
                v == VerifyPaymentResult(payments, orders, notifications, owner, ref, gw)
                c == PaystackCallbackResult(payments, orders, notifications, ref, gw)
            IN  /\ v.payments = c.payments
                /\ v.orders = c.orders
                /\ v.notifications = c.notifications

(* a callback has reconciled a payment whose order carries the reference *)
C16_Witness ==
    /\ resp.op = "paystack_callback"
    /\ ~GatewayFailed(resp.arg[2])
    /\ FindPayment(payments, resp.arg[1]) # 0
    /\ LET p == payments[FindPayment(payments, resp.arg[1])]
       IN  /\ p.status = VerifiedStatus(resp.arg[2])
           /\ orders[p.order_id].payment_reference = Some(resp.arg[1])
           /\ orders[p.order_id].payment_status = VerifiedStatus(resp.arg[2])
    /\ notifications[Len(notifications)].payment_status = VerifiedStatus(resp.arg[2])

(* what create_order priced: the lines and the charges of an order *)
Charges(order) ==
    <<order.items, order.subtotal, order.delivery_fee, order.tax, order.total_amount>>

(* C13: no operation changes the items, subtotal, delivery_fee, tax or
   total_amount of a stored order: cancellation, status updates, payment
   initiation, verification and callback, delivery status updates, driver
   assignment, catalog price changes and cart mutations all leave them as
   create_order wrote them. *)
C13_OrderChargesNeverChange ==
    [][\A o \in 1..Len(orders) : Charges(orders'[o]) = Charges(orders[o])]_vars

(* an order priced at the old catalog price has been paid for, handed to a
   driver and delivered after the price went up *)
C13_Witness ==
    \E o \in 1..Len(orders) :
        /\ orders[o].payment_status = "PAID"
        /\ orders[o].status = "DELIVERED"
        /\ orders[o].delivery_status = Some("DELIVERED")
        /\ FindDelivery(deliveries, o) # 0
        /\ deliveries[FindDelivery(deliveries, o)].driver_id # None
        /\ menu["m1"].price = Some(10)
        /\ orders[o].items[1].price = 5
        /\ carts[1].items # <<>>

(* the lines of the example: price 10 twice and price 5 once *)
ExampleLines(order) ==
    /\ Len(order.items) = 2
    /\ \E k, l \in 1..2 :
          /\ k # l
          /\ order.items[k].price = 10 /\ order.items[k].quantity = 2
          /\ order.items[l].price = 5 /\ order.items[l].quantity = 1

(* C14: in every stored order each line's subtotal is price times quantity,
   subtotal is their sum, delivery_fee is 5.00, tax is subtotal times 0.075
   and total_amount is subtotal + delivery_fee + tax (charges in
   thousandths); an order of the lines (10, 2) and (5, 1) has subtotal 25,
   tax 1.875 and total_amount 31.875. *)
C14_ChargesFollowSubtotal ==
    \A o \in 1..Len(orders) :
        LET order == orders[o]
        IN  /\ \A k \in 1..Len(order.items) :
                  order.items[k].subtotal = order.items[k].price * order.items[k].quantity
            /\ order.subtotal = SumSubtotals(order.items)
            /\ order.delivery_fee = 5000
            /\ order.tax * 1000 = order.subtotal * 1000 * 75
            /\ order.total_amount = order.subtotal * 1000 + order.delivery_fee + order.tax
            /\ ExampleLines(order) =>
                  /\ order.subtotal = 25
                  /\ order.tax = 1875
                  /\ order.total_amount = 31875

(* the order of the example is stored *)
C14_Witness ==
    \E o \in 1..Len(orders) :
        /\ ExampleLines(orders[o])
        /\ orders[o].total_amount = 31875
        /\ resp = Resp("create_order", 201)

(* the line items of cart c that name a menu item that is gone, and those
   that name one that is not available *)
GoneLines(c) ==
    {k \in 1..Len(carts[c].items) : ~Exists(menu[carts[c].items[k].menu_item_id])}
UnavailableLines(c) ==
    {k \in 1..Len(carts[c].items) :
        /\ Exists(menu[carts[c].items[k].menu_item_id])
        /\ menu[carts[c].items[k].menu_item_id].is_available = Some(FALSE)}

(* C15: create_order answers 404 when the cart is absent or not the
   caller's, 400 when the cart has no items, 404 when the address is absent
   or not the caller's, 404 when a line's menu item is gone (and none is
   unavailable), 400 when a line's menu item is unavailable (and none is
   gone); whenever it fails no order is stored and the cart is unchanged. *)
C15_CreateOrderFailsWithoutEffect ==
    [][\A u \in Users, c \in CartIds, a \in AddressIds :
          (resp'.op = "create_order" /\ CreateOrder(u, c, a)) =>
              LET cart_ok == c \in 1..Len(carts) /\ carts[c].user_id = u
                  has_items == cart_ok /\ carts[c].items # <<>>
                  address_ok == /\ a \in 1..Len(addresses)
                                /\ addresses[a].live
                                /\ addresses[a].user_id = u
              IN  /\ ~cart_ok => resp'.code = 404
                  /\ (cart_ok /\ ~has_items) => resp'.code = 400
                  /\ (has_items /\ ~address_ok) => resp'.code = 404
                  /\ (has_items /\ address_ok /\ GoneLines(c) # {}
                        /\ UnavailableLines(c) = {}) => resp'.code = 404
                  /\ (has_items /\ address_ok /\ UnavailableLines(c) # {}
                        /\ GoneLines(c) = {}) => resp'.code = 400
                  /\ (~cart_ok \/ ~has_items \/ ~address_ok \/ GoneLines(c) # {}
                        \/ UnavailableLines(c) # {}) =>
                        /\ resp'.code # 201
                        /\ orders' = orders
                        /\ carts' = carts]_vars

(* an order for a cart whose item has been made unavailable was refused *)
C15_Witness ==
    /\ resp = Resp("create_order", 400)
    /\ orders = <<>>
    /\ Len(carts) = 1
    /\ carts[1].items # <<>>
    /\ UnavailableLines(1) # {}
    /\ \E a \in 1..Len(addresses) : addresses[a].user_id = carts[1].user_id

(* C17: when review requests for a menu item interleave at their store
   calls, then once every request has completed the item's review_count is
   the number of reviews stored for it and its avg_rating is their mean. *)
C17_AggregatesCorrectAfterConcurrentEdits ==
    (\A w \in Workers : inflight[w].pc = "idle") =>
        \A m \in MenuIds :
            (Exists(menu[m]) /\ (menu[m].avg_rating # None \/ ItemReviews(reviews, m) # {})) =>
                /\ menu[m].review_count = Some(Cardinality(ItemReviews(reviews, m)))
                /\ menu[m].avg_rating = Some(AvgRating(reviews, m))

(* C18: nothing serializes two create_order requests on one cart: a request
   that has read the cart's items and priced them stores its order whatever
   other requests have stored or cleared since (as long as the store has
   room), so two requests that both read the cart before either clears it
   both succeed. *)
C18_InterleavedOrdersBothSucceed ==
    \A w \in Workers :
        (inflight[w].pc = "insert" /\ Len(orders) < MaxRacingOrders) =>
            ENABLED CreateOrderInsert(w)

(* both requests read the same cart, both have stored their order, neither
   has cleared the cart yet: two orders hold the one cart's items *)
C18_Witness ==
    /\ inflight["w1"].pc = "clear"
    /\ inflight["w2"].pc = "clear"
    /\ inflight["w1"].cart_id = inflight["w2"].cart_id
    /\ Len(orders) = 2
    /\ orders[1].items = orders[2].items
    /\ \A k \in 1..Len(orders[1].items) :
          orders[1].items[k].menu_item_id =
              carts[inflight["w1"].cart_id].items[k].menu_item_id

(* C19: delete_category on a category that a stored menu item references in
   its category_ids answers 400 and keeps the category, so no stored menu
   item references a category that delete_category has removed. *)
C19_ReferencedCategoryIsKept ==
    \A m \in MenuIds :
        Exists(menu[m]) =>
            \A c \in menu[m].category_ids : FindCategory(categories, c)

(* C20: DELIVERED and CANCELLED are terminal: no step changes the status of
   an order whose status is DELIVERED or CANCELLED. *)
C20_DeliveredAndCancelledAreTerminal ==
    [][\A o \in 1..Len(orders) :
          orders[o].status \in {"DELIVERED", "CANCELLED"} =>
              orders'[o].status = orders[o].status]_vars

(* C21: in every state with no delivery request in progress, each order
   that has a delivery record carries that record's status as its
   delivery_status, whatever admin status updates and driver assignments
   came before, interleaved ones included *)
C21_OrderMirrorsDeliveryStatus ==
    (\A w \in Workers : inflight[w].pc = "idle") =>
        \A o \in 1..Len(orders) :
            LET i == FindDelivery(deliveries, o)
            IN  i # 0 => orders[o].delivery_status = Some(deliveries[i].status)

(* C22: when add_item_to_cart(m, q) succeeds, with requests run one at a
   time, the caller's cart holds exactly one line for m; its quantity is q
   (the former quantity is replaced, not added to), its price is the current
   catalog price of m and its subtotal is price times q, whether or not the
   cart had a line for m before *)
C22_AddReplacesQuantity ==
    [][\A u \in Shoppers, m \in MenuIds, q \in Quantities :
          (AddItemToCart(u, m, q) /\ resp'.code = 200) =>
              LET items == carts'[FindCartByUser(carts', u)].items
                  S == {i \in 1..Len(items) : items[i].menu_item_id = m}
              IN  /\ Cardinality(S) = 1
                  /\ \A i \in S :
                        /\ items[i].quantity = q
                        /\ items[i].price = Val(menu[m].price)
                        /\ items[i].subtotal = Val(menu[m].price) * q]_vars

(* an add has just succeeded on a cart of two lines, one of them bought
   twice at the dearer price *)
C22_Witness ==
    /\ resp = Resp("add_item_to_cart", 200)
    /\ \E c \in 1..Len(carts) :
          /\ Len(carts[c].items) = 2
          /\ \E i \in 1..2 : /\ carts[c].items[i].quantity = 2
                             /\ carts[c].items[i].price = 10
                             /\ carts[c].items[i].subtotal = 20

(* C23: a gateway answer that is not HTTP 200, or whose status flag is
   false, changes nothing: initialize_payment and verify_payment answer
   with a 5xx, and in these two and in paystack_callback no payment is
   created or modified, no order changes its payment_reference or
   payment_status, and no notification is written *)
C23_GatewayFailureChangesNothing ==
    [][(resp'.op \in {"initialize_payment", "verify_payment", "paystack_callback"}
        /\ resp'.arg[Len(resp'.arg)] \in {"http_error", "status_false"}) =>
          LET a == resp'.arg
              Untouched == /\ payments' = payments
                           /\ orders' = orders
                           /\ notifications' = notifications
          IN  /\ (resp'.op = "initialize_payment" /\ InitializePayment(a[1], a[2], a[3])
                  /\ FindOrder(orders, a[2], a[1]) /\ orders[a[2]].payment_status # "PAID")
                 => (Untouched /\ resp'.code >= 500 /\ resp'.code < 600)
              /\ (resp'.op = "verify_payment" /\ VerifyPayment(a[1], a[2], a[3])
                  /\ FindOwnPayment(payments, a[2], a[1]) # 0)
                 => (Untouched /\ resp'.code >= 500 /\ resp'.code < 600)
              /\ (resp'.op = "paystack_callback" /\ PaystackCallback(a[1], a[2]))
                 => Untouched]_vars

(* the gateway has just refused the verification of a stored payment *)
C23_Witness ==
    /\ resp.op = "verify_payment"
    /\ resp.code = 500
    /\ resp.arg[3] = "status_false"
    /\ FindOwnPayment(payments, resp.arg[2], resp.arg[1]) # 0

(* C24: in every reachable state at most one cart carries a given user_id,
   also after two get-or-create requests of a user without a cart have
   interleaved *)
C24_OneCartPerUser ==
    \A u \in Users : Cardinality({c \in 1..Len(carts) : carts[c].user_id = u}) <= 1

(* C29: when two cart mutations of one user (add, update or remove) have
   interleaved at the granularity of the store's reads and writes and both
   have completed, the stored total of the cart equals the sum of the
   stored subtotals of its lines *)
C29_TotalCorrectAfterInterleavedMutations ==
    (\A w \in Workers : inflight[w].pc = "idle") =>
        \A c \in 1..Len(carts) : carts[c].total = SumSubtotals(carts[c].items)

(* C25: update_order_status and update_delivery_status called with an order
   id that is malformed or matches no order answer NotFound (404) and
   change no stored order or delivery *)
C25_UnknownOrderIsNotFound ==
    [][\A o \in OrderIds :
          (/\ o \notin 1..Len(orders)
           /\ \/ \E st \in OrderStatuses : UpdateOrderStatus(o, st)
              \/ \E s \in DeliveryStatuses : UpdateDeliveryStatus(o, s)) =>
              /\ resp'.code = 404
              /\ orders' = orders
              /\ deliveries' = deliveries]_vars

OthersLine(u, id) ==
    \E c \in 1..Len(carts) : carts[c].user_id # u /\ FindLineById(carts[c].items, id) # 0
OthersCart(u, c) == c \in 1..Len(carts) /\ carts[c].user_id # u
OthersAddress(u, a) ==
    a \in 1..Len(addresses) /\ addresses[a].live /\ addresses[a].user_id # u
OthersOrder(u, o) == o \in 1..Len(orders) /\ orders[o].user_id # u
OthersPayment(u, ref) ==
    FindPayment(payments, ref) # 0 /\ payments[FindPayment(payments, ref)].user_id # u

(* the answer is NotFound and nothing stored has changed *)
Denied ==
    /\ resp'.code = 404
    /\ UNCHANGED <<carts, addresses, orders, payments, deliveries, notifications>>

(* C26: no request of a user who is not an admin reads or modifies a cart,
   address, order or payment of another user: the cart, address, order
   (detail, cancel, create, delivery tracking) and payment (initialize,
   verify) handlers answer NotFound for another user's entity, as for one
   that does not exist, and leave it unchanged; what a read returns belongs
   to the caller *)
C26_OthersEntitiesAreNotFound ==
    [][\A u \in Users \ Admins :
          /\ resp'.op \in {"update_cart_item", "remove_cart_item"} =>
                \A id \in LineIds :
                   (OthersLine(u, id) /\ (UpdateCartItem(u, id, 2) \/ RemoveCartItem(u, id)))
                       => Denied
          /\ resp'.op \in {"add_item_to_cart", "get_user_cart", "clear_cart"} =>
                ((AddItemToCart(u, "m1", 1) \/ GetUserCart(u) \/ ClearCart(u)) =>
                    \A c \in 1..Len(carts) : carts[c].user_id # u => carts'[c] = carts[c])
          /\ resp'.op \in {"get_address", "update_address", "delete_address"} =>
                \A a \in AddressIds :
                   (OthersAddress(u, a)
                    /\ (GetAddress(u, a) \/ DeleteAddress(u, a)
                        \/ \E upd \in IsDefaultUpdates : UpdateAddress(u, a, upd)))
                       => Denied
          /\ resp'.op = "create_order" =>
                \A c \in CartIds, a \in AddressIds :
                   /\ (OthersCart(u, c) /\ CreateOrder(u, c, a)) => Denied
                   /\ (OthersAddress(u, a) /\ FindCartById(carts, c, u)
                       /\ carts[c].items # <<>> /\ CreateOrder(u, c, a)) => Denied
          /\ resp'.op \in {"get_order_detail", "cancel_order", "get_delivery_status",
                            "initialize_payment"} =>
                \A o \in OrderIds :
                   (OthersOrder(u, o)
                    /\ (GetOrderDetail(u, o) \/ CancelOrder(u, o) \/ GetDeliveryStatus(u, o)
                        \/ \E gw \in InitAnswers : InitializePayment(u, o, gw)))
                       => Denied
          /\ resp'.op = "verify_payment" =>
                \A ref \in RefIds :
                   (OthersPayment(u, ref)
                    /\ \E gw \in VerifyAnswers : VerifyPayment(u, ref, gw))
                       => Denied
          /\ (resp'.op \in {"get_address", "get_order_detail", "get_delivery_status"}
              /\ resp'.code = 200 /\ resp'.arg[1] = u)
                => resp'.arg[2].user_id = u]_vars

(* the shopper has just asked for the order of the other user, which by
   then has a delivery and a payment *)
C26_Witness ==
    /\ resp = RespArg("get_order_detail", 404, <<"u1">>)
    /\ Len(orders) = 1
    /\ orders[1].user_id = "u2"
    /\ deliveries # <<>>
    /\ payments # <<>>
    /\ \E c \in 1..Len(carts) : carts[c].user_id = "u1" /\ carts[c].items # <<>>

(* C27: when a cancel_order interleaves with an admin's update_order_status
   on the same order, the write that sets CANCELLED takes effect only if the
   order's status immediately before that write is PENDING or CONFIRMED *)
C27_CancelWritesOnlyOverPendingOrConfirmed ==
    [][\A w \in Workers :
          CancelOrderSet(w) =>
              orders[inflight[w].order_id].status \in {"PENDING", "CONFIRMED"}]_vars

(* C28: once an order's payment_status is PAID no step sets it back to
   PENDING or replaces its payment_reference, also when an
   initialize_payment that read the order before it was PAID writes after
   the verification *)
C28_PaidIsNotReopened ==
    [][\A o \in 1..Len(orders) :
          orders[o].payment_status = "PAID" =>
              /\ orders'[o].payment_status # "PENDING"
              /\ orders'[o].payment_reference = orders[o].payment_reference]_vars

(* C30: every stored cart line and every stored order line has a quantity
   of at least 1, so that every subtotal is positive, every cart total is
   at least 0 and every order total is at least the delivery fee;
   add_item_to_cart and update_cart_item never store a zero or negative
   quantity *)
C30_QuantitiesAtLeastOne ==
    /\ \A c \in 1..Len(carts) :
          /\ carts[c].total >= 0
          /\ \A i \in 1..Len(carts[c].items) :
                carts[c].items[i].quantity >= 1 /\ carts[c].items[i].subtotal > 0
    /\ \A o \in 1..Len(orders) :
          /\ orders[o].total_amount >= orders[o].delivery_fee
          /\ \A i \in 1..Len(orders[o].items) :
                orders[o].items[i].quantity >= 1 /\ orders[o].items[i].subtotal > 0

====
